---- MODULE Spec2Model ----
(***************************************************************************)
(* A model of three parts of the kernel:                                   *)
(*   - the pipe scheme          (src/src/scheme/pipe.rs),   PipeSpec       *)
(*   - the irq scheme           (src/src/scheme/irq.rs),    IrqSpec        *)
(*   - the scheduler switch     (src/src/context/switch.rs), SwitchSpec    *)
(* Each part has its own initial predicate, next-state relation and        *)
(* specification; the variables of the other parts stay as initialised.    *)
(***************************************************************************)
EXTENDS Integers, Sequences, FiniteSets, TLC

(***************************************************************************)
(* Bounds of the model.                                                    *)
(***************************************************************************)
\* concurrent callers of the pipe scheme
NProcs == 2
\* longest user buffer handed to kread / kwrite
MaxBuf == 2
\* total number of bytes offered to kwrite over a run
MaxBytes == 3
\* number of pipes pipe() may allocate
MaxPipes == 1
\* width of usize in the model (64 in the kernel)
USIZE_BITS == 3
\* capacity of a pipe queue in the model (pipe.rs:31 has 65536)
MAX_QUEUE_SIZE == 2
\* size of kwrite's bounce buffer in the model (pipe.rs:246 has 512)
TMPBUF_SIZE == 1

Procs == 1..NProcs

Min(a, b) == IF a <= b THEN a ELSE b
SatSub(a, b) == IF a >= b THEN a - b ELSE 0
Take(s, n) == SubSeq(s, 1, n)
Drop(s, n) == SubSeq(s, n + 1, Len(s))

Ok(n) == <<"Ok", n>>
Err(e) == <<"Err", e>>

(***************************************************************************)
(* Pipe scheme state.                                                      *)
(***************************************************************************)
VARIABLES
    PIPE_NEXT_ID,   \* pipe.rs:22
    PIPES,          \* pipe.rs:25, the keys present in the map
    pipes,          \* the Pipe objects (Arc<Pipe>), by key; kept while referenced
    ppc,            \* per caller: position in its pipe scheme call
    call,           \* per caller: arguments of its call
    ret,            \* the call that returned in the last step, its result and
                    \* the callers its notify woke
    written,        \* history: per key, every byte kwrite has put in the queue
    readout,        \* history: per key, every byte kread has returned
    offered         \* bytes offered to kwrite so far (bounds the run)

pipeVars == <<PIPE_NEXT_ID, PIPES, pipes, ppc, call, ret, written, readout, offered>>

\* pipe.rs:35
WRITE_NOT_READ_BIT == 2 ^ (USIZE_BITS - 1)

\* pipe.rs:37-39: (id & BIT != 0, id & !BIT)
from_raw_id(id) == <<(id \div WRITE_NOT_READ_BIT) % 2 = 1,
                     id - ((id \div WRITE_NOT_READ_BIT) % 2) * WRITE_NOT_READ_BIT>>

O_NONBLOCK == "O_NONBLOCK"
O_ACCMODE == {"O_RDONLY", "O_WRONLY"}
FlagSets == {{}, {O_NONBLOCK}}
FcntlArgs == {{}, {O_NONBLOCK, "O_WRONLY"}}

NoCall == [op |-> "none", id |-> 0, data |-> <<>>, len |-> 0]
NoRet == [who |-> 0, call |-> NoCall, val |-> <<"None", 0>>, woken |-> {}]

\* pipe.rs:44-53, the record pipe() inserts
NewPipe(flags) ==
    [read_flags |-> flags, write_flags |-> flags, queue |-> <<>>,
     read_condition |-> {}, write_condition |-> {},
     writer_is_alive |-> TRUE, reader_is_alive |-> TRUE,
     has_run_dup |-> FALSE, lock |-> 0]

PipeInit ==
    /\ PIPE_NEXT_ID = 1
    /\ PIPES = {}
    /\ pipes = <<>>
    /\ ppc = [p \in Procs |-> "idle"]
    /\ call = [p \in Procs |-> NoCall]
    /\ ret = NoRet
    /\ written = <<>>
    /\ readout = <<>>
    /\ offered = 0

\* pipe.rs:41-56
pipe(flags) ==
    /\ PIPE_NEXT_ID <= MaxPipes
    /\ PIPE_NEXT_ID' = PIPE_NEXT_ID + 1
    /\ PIPES' = PIPES \cup {PIPE_NEXT_ID}
    /\ pipes' = Append(pipes, NewPipe(flags))
    /\ written' = Append(written, <<>>)
    /\ readout' = Append(readout, <<>>)
    /\ ret' = NoRet
    /\ UNCHANGED <<ppc, call, offered>>

(***************************************************************************)
(* WaitCondition (crate::sync::WaitCondition): the set of callers parked   *)
(* on it.  wait() parks the caller and drops the guard it was handed;      *)
(* notify() wakes every parked caller; a parked caller may also be woken   *)
(* by a signal, and wait() then returns false.                             *)
(***************************************************************************)
\* notify() that wakes nobody
WaitCondition_notify_nobody(pcs, waiters, at) == pcs

\* notify(): every parked caller resumes at `at`
WaitCondition_notify(pcs, waiters, at) ==
    [q \in Procs |-> IF q \in waiters THEN at ELSE pcs[q]]

Key(p) == from_raw_id(call[p].id)[2]

Args(op, id, data, len) == [op |-> op, id |-> id, data |-> data, len |-> len]

\* the call of p begins: its arguments are recorded
Enter(p, args, at) ==
    /\ ppc[p] = "idle"
    /\ call' = [call EXCEPT ![p] = args]
    /\ ppc' = [ppc EXCEPT ![p] = at]
    /\ ret' = NoRet

\* a call of p that returns r in the step it begins in
Whole(p, args, r) ==
    /\ ppc[p] = "idle"
    /\ ret' = [who |-> p, call |-> args, val |-> r, woken |-> {}]
    /\ UNCHANGED <<ppc, call>>

\* the call of p returns r, possibly after waking the callers in woken
ReturnWaking(p, r, woken, at) ==
    /\ ret' = [who |-> p, call |-> call[p], val |-> r, woken |-> woken]
    /\ ppc' = [WaitCondition_notify(ppc, woken, at) EXCEPT ![p] = "idle"]
    /\ call' = [call EXCEPT ![p] = NoCall]

Return(p, r) == ReturnWaking(p, r, {}, "idle")

\* a step of p inside its call
Step(p, at) ==
    /\ ppc' = [ppc EXCEPT ![p] = at]
    /\ ret' = NoRet
    /\ UNCHANGED call

\* the accessible prefix of a user buffer of n bytes at the time of a copy:
\* all of it, the first bounce buffer's worth, or nothing (the pages of the
\* caller's address space can come and go while the call runs)
Valids(n) == {v \in {0, TMPBUF_SIZE, n} : v <= n}

\* VecDeque::as_slices: the two halves of the ring, the first one non-empty
\* when the queue is
SplitPoints(q) == IF q = <<>> THEN {0} ELSE 1..Len(q)

\* CopyOut with the two halves of the ring copied in the wrong order
CopyOut_s2_first(s1, s2, len) ==
    LET s1_count == Min(len, Len(s1))
        s2_count == Min(len - s1_count, Len(s2))
    IN  Take(s2, s2_count) \o Take(s1, s1_count)

\* pipe.rs:201-210: the bytes one pass of kread copies to a buffer of len bytes
CopyOut(s1, s2, len) ==
    LET s1_count == Min(len, Len(s1))
        s2_count == Min(len - s1_count, Len(s2))
    IN  Take(s1, s1_count) \o Take(s2, s2_count)

\* pipe.rs:204-208: a copy to user memory faults when it reaches past the
\* writable prefix (valid bytes) of the buffer
CopyOutFaults(s1, s2, len, valid) ==
    LET s1_count == Min(len, Len(s1))
        s2_count == Min(len - s1_count, Len(s2))
    IN  \/ s1_count > valid
        \/ s2_count > 0 /\ s1_count + s2_count > valid

\* kread_outcome without the load of writer_is_alive: an empty queue reads
\* as the end of the file
kread_outcome_eof_on_empty(bytes_read, len, writer_is_alive) ==
    IF bytes_read > 0 THEN "data"
    ELSE IF len = 0 THEN "empty_buf"
    ELSE "eof"

\* pipe.rs:212-228: what one pass of kread does after the copy
kread_outcome(bytes_read, len, writer_is_alive) ==
    IF bytes_read > 0 THEN "data"
    ELSE IF len = 0 THEN "empty_buf"
    ELSE IF ~writer_is_alive THEN "eof"
    ELSE "block"

\* pipe.rs:190-196
PipeScheme_kread(p, id, len) ==
    /\ IF from_raw_id(id)[1] \/ from_raw_id(id)[2] \notin PIPES
       THEN Whole(p, Args("kread", id, <<>>, len), Err("EBADF"))
       ELSE Enter(p, Args("kread", id, <<>>, len), "kread_loop")
    /\ UNCHANGED <<PIPE_NEXT_ID, PIPES, pipes, written, readout, offered>>

\* pipe.rs:198-223: one pass of the loop, from queue.lock() to the
\* writer_is_alive load
kread_loop(p) ==
    /\ ppc[p] = "kread_loop"
    /\ pipes[Key(p)].lock = 0
    /\ LET key == Key(p)
           P == pipes[key]
           len == call[p].len
       IN \E k \in SplitPoints(P.queue), valid \in Valids(len) :
          LET s1 == Take(P.queue, k)
              s2 == Drop(P.queue, k)
              out == CopyOut(s1, s2, len)
              bytes_read == Len(out)
              outcome == kread_outcome(bytes_read, len, P.writer_is_alive)
          IN
          IF CopyOutFaults(s1, s2, len, valid)
          THEN /\ Return(p, Err("EFAULT"))
               /\ UNCHANGED <<pipes, readout>>
          ELSE IF outcome = "data"
          THEN /\ pipes' = [pipes EXCEPT ![key].queue = Drop(P.queue, bytes_read),
                                         ![key].write_condition = {}]
               /\ readout' = [readout EXCEPT ![key] = @ \o out]
               /\ ReturnWaking(p, Ok(bytes_read), P.write_condition, "kwrite_loop")
          ELSE IF outcome \in {"empty_buf", "eof"}
          THEN /\ Return(p, Ok(0))
               /\ UNCHANGED <<pipes, readout>>
          ELSE /\ pipes' = [pipes EXCEPT ![key].lock = p]
               /\ Step(p, "kread_block")
               /\ UNCHANGED readout
    /\ UNCHANGED <<PIPE_NEXT_ID, PIPES, written, offered>>

\* nonblocking that never finds the flag
nonblocking_never(flags) == FALSE

\* pipe.rs:224, 273: flags & O_NONBLOCK == O_NONBLOCK
nonblocking(flags) == O_NONBLOCK \in flags

\* pipe.rs:224-228: the O_NONBLOCK test and read_condition.wait(vec, ..),
\* which parks the caller and drops the queue guard
kread_block(p) ==
    /\ ppc[p] = "kread_block"
    /\ LET key == Key(p)
           P == pipes[key]
       IN IF nonblocking(P.read_flags)
          THEN /\ pipes' = [pipes EXCEPT ![key].lock = 0]
               /\ Return(p, Err("EAGAIN"))
          ELSE /\ pipes' = [pipes EXCEPT ![key].lock = 0,
                                         ![key].read_condition = @ \cup {p}]
               /\ Step(p, "kread_wait")
    /\ UNCHANGED <<PIPE_NEXT_ID, PIPES, written, readout, offered>>

\* pipe.rs:226-227 and 275-276: wait() returned false (the caller was woken
\* by a signal, not by notify): EINTR
wait_interrupted(p) ==
    /\ ppc[p] \in {"kread_wait", "kwrite_wait"}
    /\ LET key == Key(p) IN
       pipes' = [pipes EXCEPT ![key].read_condition = @ \ {p},
                              ![key].write_condition = @ \ {p}]
    /\ Return(p, Err("EINTR"))
    /\ UNCHANGED <<PIPE_NEXT_ID, PIPES, written, readout, offered>>

\* the chunks copied with a fault in any chunk returned as the error
RECURSIVE CopyChunks_fault_is_error(_, _, _, _)
CopyChunks_fault_is_error(idx, bytes_to_write, valid, bytes_written) ==
    IF idx * TMPBUF_SIZE >= bytes_to_write
    THEN <<FALSE, bytes_written>>
    ELSE LET end == Min((idx + 1) * TMPBUF_SIZE, bytes_to_write) IN
         IF end > valid
         THEN <<TRUE, 0>>
         ELSE CopyChunks_fault_is_error(idx + 1, bytes_to_write, valid,
                                        bytes_written + (end - idx * TMPBUF_SIZE))

\* pipe.rs:252-260: the chunks of src_buf go through tmp_buf one by one; a
\* chunk that reaches past the readable prefix (valid bytes) of the user
\* buffer faults.  <<faulted on the first chunk, bytes_written>>
RECURSIVE CopyChunks(_, _, _, _)
CopyChunks(idx, bytes_to_write, valid, bytes_written) ==
    IF idx * TMPBUF_SIZE >= bytes_to_write
    THEN <<FALSE, bytes_written>>
    ELSE LET end == Min((idx + 1) * TMPBUF_SIZE, bytes_to_write) IN
         IF end > valid
         THEN (IF idx > 0 THEN <<FALSE, bytes_written>> ELSE <<TRUE, 0>>)
         ELSE CopyChunks(idx + 1, bytes_to_write, valid,
                         bytes_written + (end - idx * TMPBUF_SIZE))

\* BytesToWrite without the room left in the queue
BytesToWrite_whole_buffer(queue_len, buf_len) == buf_len

\* pipe.rs:242-243
BytesToWrite(queue_len, buf_len) ==
    Min(SatSub(MAX_QUEUE_SIZE, queue_len), buf_len)

\* pipe.rs:231-237
PipeScheme_kwrite(p, id, data) ==
    /\ offered + Len(data) <= MaxBytes
    /\ IF ~from_raw_id(id)[1] \/ from_raw_id(id)[2] \notin PIPES
       THEN /\ Whole(p, Args("kwrite", id, data, Len(data)), Err("EBADF"))
            /\ UNCHANGED offered
       ELSE /\ Enter(p, Args("kwrite", id, data, Len(data)), "kwrite_loop")
            /\ offered' = offered + Len(data)
    /\ UNCHANGED <<PIPE_NEXT_ID, PIPES, pipes, written, readout>>

\* a pass of kwrite returns r; the label keeps the readable prefix of the
\* user buffer that the pass met
KwriteReturn(p, r, valid, woken) ==
    /\ ret' = [who |-> p, call |-> call[p], val |-> r, valid |-> valid,
                woken |-> woken]
    /\ ppc' = [WaitCondition_notify(ppc, woken, "kread_loop") EXCEPT ![p] = "idle"]
    /\ call' = [call EXCEPT ![p] = NoCall]

\* pipe.rs:239-272: one pass of the loop, from queue.lock() to the
\* reader_is_alive load
kwrite_loop(p) ==
    /\ ppc[p] = "kwrite_loop"
    /\ pipes[Key(p)].lock = 0
    /\ \E valid \in Valids(call[p].len) :
       LET key == Key(p)
           P == pipes[key]
           data == call[p].data
           bytes_to_write == BytesToWrite(Len(P.queue), Len(data))
           copied == CopyChunks(0, bytes_to_write, valid, 0)
           bytes_written == copied[2]
       IN IF copied[1]
          THEN /\ KwriteReturn(p, Err("EFAULT"), valid, {})
               /\ UNCHANGED <<pipes, written>>
          ELSE IF bytes_written > 0
          THEN /\ pipes' = [pipes EXCEPT ![key].queue = @ \o Take(data, bytes_written),
                                         ![key].read_condition = {}]
               /\ written' = [written EXCEPT ![key] = @ \o Take(data, bytes_written)]
               /\ KwriteReturn(p, Ok(bytes_written), valid, P.read_condition)
          ELSE IF Len(data) = 0
          THEN /\ KwriteReturn(p, Ok(0), valid, {})
               /\ UNCHANGED <<pipes, written>>
          ELSE IF ~P.reader_is_alive
          THEN /\ KwriteReturn(p, Err("EPIPE"), valid, {})
               /\ UNCHANGED <<pipes, written>>
          ELSE /\ pipes' = [pipes EXCEPT ![key].lock = p]
               /\ Step(p, "kwrite_block")
               /\ UNCHANGED written
    /\ UNCHANGED <<PIPE_NEXT_ID, PIPES, readout, offered>>

\* pipe.rs:273-277
kwrite_block(p) ==
    /\ ppc[p] = "kwrite_block"
    /\ LET key == Key(p)
           P == pipes[key]
       IN IF nonblocking(P.write_flags)
          THEN /\ pipes' = [pipes EXCEPT ![key].lock = 0]
               /\ Return(p, Err("EAGAIN"))
          ELSE /\ pipes' = [pipes EXCEPT ![key].lock = 0,
                                         ![key].write_condition = @ \cup {p}]
               /\ Step(p, "kwrite_wait")
    /\ UNCHANGED <<PIPE_NEXT_ID, PIPES, written, readout, offered>>

\* pipe.rs:113-122 and 127-129: the lookup, the event and the notify of the
\* other side
PipeScheme_close(p, id) ==
    /\ LET is_write_not_read == from_raw_id(id)[1]
           key == from_raw_id(id)[2]
           args == Args("close", id, <<>>, 0)
       IN IF key \notin PIPES
          THEN /\ Whole(p, args, Err("EBADF"))
               /\ UNCHANGED pipes
          ELSE /\ ppc[p] = "idle"
               /\ call' = [call EXCEPT ![p] = args]
               /\ ret' = NoRet
               /\ IF is_write_not_read
                  THEN /\ pipes' = [pipes EXCEPT ![key].read_condition = {}]
                       /\ ppc' = [WaitCondition_notify(ppc, pipes[key].read_condition,
                                                       "kread_loop")
                                    EXCEPT ![p] = "close_store"]
                  ELSE /\ pipes' = [pipes EXCEPT ![key].write_condition = {}]
                       /\ ppc' = [WaitCondition_notify(ppc, pipes[key].write_condition,
                                                       "kwrite_loop")
                                    EXCEPT ![p] = "close_store"]
    /\ UNCHANGED <<PIPE_NEXT_ID, PIPES, written, readout, offered>>

\* pipe.rs:123 and 130: the store to this side's _is_alive flag
close_store(p) ==
    /\ ppc[p] = "close_store"
    /\ LET key == Key(p) IN
       IF from_raw_id(call[p].id)[1]
       THEN pipes' = [pipes EXCEPT ![key].writer_is_alive = FALSE]
       ELSE pipes' = [pipes EXCEPT ![key].reader_is_alive = FALSE]
    /\ Step(p, "close_finish")
    /\ UNCHANGED <<PIPE_NEXT_ID, PIPES, written, readout, offered>>

\* can_remove from the flag of the closing side itself
can_remove_own_flag(P, is_write_not_read) ==
    IF is_write_not_read THEN ~P.writer_is_alive ELSE ~P.reader_is_alive

\* can_remove with the negation of the load left out
can_remove_not_negated(P, is_write_not_read) ==
    IF is_write_not_read THEN P.reader_is_alive ELSE P.writer_is_alive

\* pipe.rs:125, 132: the load of the other side's flag
can_remove(P, is_write_not_read) ==
    IF is_write_not_read THEN ~P.reader_is_alive ELSE ~P.writer_is_alive

\* pipe.rs:125-139
close_finish(p) ==
    /\ ppc[p] = "close_finish"
    /\ LET key == Key(p) IN
       IF can_remove(pipes[key], from_raw_id(call[p].id)[1])
       THEN PIPES' = PIPES \ {key}
       ELSE UNCHANGED PIPES
    /\ Return(p, Ok(0))
    /\ UNCHANGED <<PIPE_NEXT_ID, pipes, written, readout, offered>>

\* pipe.rs:70-84
PipeScheme_fcntl(p, id, cmd, arg) ==
    /\ LET is_writer_not_reader == from_raw_id(id)[1]
           key == from_raw_id(id)[2]
           args == Args("fcntl", id, <<>>, 0)
       IN IF key \notin PIPES
          THEN /\ Whole(p, args, Err("EBADF"))
               /\ UNCHANGED pipes
          ELSE IF cmd = "F_GETFL"
          THEN /\ Whole(p, args, <<"Flags", IF is_writer_not_reader
                                            THEN pipes[key].write_flags
                                            ELSE pipes[key].read_flags>>)
               /\ UNCHANGED pipes
          ELSE IF cmd = "F_SETFL"
          THEN /\ IF is_writer_not_reader
                  THEN pipes' = [pipes EXCEPT ![key].write_flags = arg \ O_ACCMODE]
                  ELSE pipes' = [pipes EXCEPT ![key].read_flags = arg \ O_ACCMODE]
               /\ Whole(p, args, Ok(0))
          ELSE /\ Whole(p, args, Err("EINVAL"))
               /\ UNCHANGED pipes
    /\ UNCHANGED <<PIPE_NEXT_ID, PIPES, written, readout, offered>>

\* pipe.rs:86-107
PipeScheme_fevent(p, id, flags) ==
    /\ LET is_writer_not_reader == from_raw_id(id)[1]
           key == from_raw_id(id)[2]
           args == Args("fevent", id, <<>>, 0)
       IN /\ key \in PIPES => pipes[key].lock = 0
          /\ IF key \notin PIPES
             THEN Whole(p, args, Err("EBADF"))
             ELSE IF is_writer_not_reader /\ flags = {"EVENT_WRITE"}
             THEN Whole(p, args, <<"Events", IF Len(pipes[key].queue) >= MAX_QUEUE_SIZE
                                             THEN {} ELSE {"EVENT_WRITE"}>>)
             ELSE IF flags = {"EVENT_READ"}
             THEN Whole(p, args, <<"Events", IF pipes[key].queue = <<>>
                                             THEN {} ELSE {"EVENT_READ"}>>)
             ELSE Whole(p, args, Err("EBADF"))
    /\ UNCHANGED <<PIPE_NEXT_ID, PIPES, pipes, written, readout, offered>>

WriteStr == <<"w", "r", "i", "t", "e">>
DupBufs == {WriteStr, WriteStr \o <<"r">>, <<"r", "e", "a", "d">>}

\* pipe.rs:165-166: copy_common_bytes_to_slice into the 5 bytes of tmp
dup_buf(user_buf) == Take(user_buf, Min(5, Len(user_buf)))

\* pipe.rs:159-179
PipeScheme_kdup(p, old_id, user_buf) ==
    /\ LET is_writer_not_reader == from_raw_id(old_id)[1]
           key == from_raw_id(old_id)[2]
           buf == dup_buf(user_buf)
           args == Args("kdup", old_id, user_buf, 0)
       IN IF is_writer_not_reader
          THEN /\ Whole(p, args, Err("EBADF"))
               /\ UNCHANGED pipes
          ELSE IF Len(buf) < 5 \/ buf # WriteStr
          THEN /\ Whole(p, args, Err("EINVAL"))
               /\ UNCHANGED pipes
          ELSE IF key \notin PIPES
          THEN /\ Whole(p, args, Err("EBADF"))
               /\ UNCHANGED pipes
          ELSE IF pipes[key].has_run_dup
          THEN /\ Whole(p, args, Err("EBADF"))
               /\ UNCHANGED pipes
          ELSE /\ pipes' = [pipes EXCEPT ![key].has_run_dup = TRUE]
               /\ Whole(p, args, Ok(key + WRITE_NOT_READ_BIT))
    /\ UNCHANGED <<PIPE_NEXT_ID, PIPES, written, readout, offered>>

\* the ids a caller may pass: both sides of every key, allocated or not
Ids == {k + s * WRITE_NOT_READ_BIT : k \in 1..MaxPipes, s \in {0, 1}}
\* the user buffer of a write: its bytes are numbered on from the bytes
\* offered so far, so that every byte of a run is told from every other
Buf(n) == [i \in 1..n |-> offered + i]

(***************************************************************************)
(* Irq scheme state.                                                       *)
(***************************************************************************)
\* concurrent callers of the irq scheme
NIrqProcs == 2
\* CPUs whose cpu-XX directory the callers name
NCpus == 2
\* handles that open() may create
MaxFd == 2
\* interrupts delivered per vector
MaxCount == 2

\* irq.rs:30
BASE_IRQ_COUNT == 16
\* irq.rs:38
TOTAL_IRQ_COUNT == 224
\* mem::size_of::<usize>() on the 64-bit targets
SIZE_OF_USIZE == 8
\* crate::arch::interrupt::bsp_apic_id(): the boot processor is CPU 0
bsp_apic_id == 0

IrqProcs == 1..NIrqProcs
Cpus == 0..(NCpus - 1)
\* the irq numbers the callers name and the vectors that fire
IrqInputs == {3, 16, 17, 224}
TrigIrqs == {3}
NoIrq == 255

VARIABLES
    COUNTS,         \* irq.rs:25, restricted to TrigIrqs
    HANDLES,        \* irq.rs:26, fd -> Handle
    next_fd,        \* irq.rs:78
    reserved,       \* the reservation bitmaps of arch::interrupt: <<cpu, vector>>
    trig,           \* the irq whose irq_trigger is between count and fan-out
    ipc,            \* per caller: position in its irq scheme call
    icall,          \* per caller: arguments of its call
    iret,           \* what the last step did: the call that returned and its
                    \* result, the fds EVENT_READ was posted to, the irqs
                    \* acknowledge() was called for
    resv,           \* history: fd -> the <<cpu, vector>> its open reserved, or <<>>
    closed,         \* history: the fds close() has returned Ok for
    acked           \* history: the fds a kwrite has stored the current count
                    \* of the irq into, with no irq_trigger of the irq since

irqVars ==
    <<COUNTS, HANDLES, next_fd, reserved, trig, ipc, icall, iret, resv, closed,
      acked>>

NoICall == [op |-> "none", fd |-> 0, cpu |-> 0, irq |-> 0, word |-> 0]
IRet(op, fd, val, word, posted, acks) ==
    [op |-> op, fd |-> fd, val |-> val, word |-> word, posted |-> posted,
     acks |-> acks]
NoIRet == IRet("none", 0, <<"None", 0>>, 0, {}, {})
\* the label of a returned open(): the result with the arguments of the call
OpenRet(fd, val, path, flags, uid) ==
    [op |-> "open", fd |-> fd, val |-> val, word |-> 0, posted |-> {}, acks |-> {},
     path |-> path, flags |-> flags, uid |-> uid]

IrqInit ==
    /\ COUNTS = [i \in TrigIrqs |-> 0]
    /\ HANDLES = <<>>
    /\ next_fd = 0
    /\ reserved = {}
    /\ trig = NoIrq
    /\ ipc = [p \in IrqProcs |-> "idle"]
    /\ icall = [p \in IrqProcs |-> NoICall]
    /\ iret = NoIRet
    /\ resv = <<>>
    /\ closed = {}
    /\ acked = {}

\* irq.rs:142-144
irq_to_vector(irq) == irq + 32

\* crate::arch::interrupt::is_reserved
is_reserved(cpu_id, vector) == <<cpu_id, vector>> \in reserved

\* crate::arch::interrupt::set_reserved: the bitmap after the call
set_reserved(cpu_id, vector, value) ==
    IF value THEN reserved \cup {<<cpu_id, vector>>}
    ELSE reserved \ {<<cpu_id, vector>>}

\* irq.rs:59-67: Handle; irq and ack belong to Irq, cpu to Avail
IrqHandle(irq) == [kind |-> "Irq", irq |-> irq, ack |-> 0, cpu |-> 0]
OtherHandle(kind, cpu) == [kind |-> kind, irq |-> 0, ack |-> 0, cpu |-> cpu]

\* COUNTS[irq]; the vectors that never fire stay at 0
Count(irq) == IF irq \in TrigIrqs THEN COUNTS[irq] ELSE 0

\* HANDLES.get(&fd)
HasHandle(fd) == fd \in DOMAIN HANDLES

\* irq.rs:216-217: the handle gets the next fd
InsertHandle(handle, made) ==
    /\ next_fd' = next_fd + 1
    /\ HANDLES' = (next_fd :> handle) @@ HANDLES
    /\ resv' = (next_fd :> made) @@ resv

\* the call of p returns
IReturn(p, r) ==
    /\ iret' = r
    /\ ipc' = [ipc EXCEPT ![p] = "idle"]
    /\ icall' = [icall EXCEPT ![p] = NoICall]

\* a call of p that returns in the step it begins in
IWhole(p, r) ==
    /\ ipc[p] = "idle"
    /\ iret' = r
    /\ UNCHANGED <<ipc, icall>>

\* counted with the increment left out
counted_not(count) == count

\* irq.rs:47: COUNTS.lock()[irq as usize] += 1
counted(count) == count + 1

\* irq.rs:46-47: the count
irq_trigger(irq) ==
    /\ trig = NoIrq
    /\ COUNTS[irq] < MaxCount
    /\ COUNTS' = [COUNTS EXCEPT ![irq] = counted(@)]
    /\ trig' = irq
    /\ iret' = NoIRet
    /\ acked' = {fd \in acked : HANDLES[fd].irq # irq}
    /\ UNCHANGED <<HANDLES, next_fd, reserved, ipc, icall, resv, closed>>

\* irq.rs:49-56: the fan-out of EVENT_READ to the handles of the irq
irq_trigger_fanout ==
    /\ trig # NoIrq
    /\ iret' = IRet("irq_trigger", 0, Ok(0), 0,
                    {fd \in DOMAIN HANDLES :
                        HANDLES[fd].kind = "Irq" /\ HANDLES[fd].irq = trig}, {})
    /\ trig' = NoIrq
    /\ UNCHANGED <<COUNTS, HANDLES, next_fd, reserved, ipc, icall, resv, closed,
                   acked>>

O_CREAT == "O_CREAT"
O_STAT == "O_STAT"
O_DIRECTORY == "O_DIRECTORY"
OpenFlags == {{}, {O_CREAT}, {O_STAT}, {O_CREAT, O_STAT}, {O_DIRECTORY}}

\* the paths of the scheme, parsed: "", "bsp", "cpu-XX", "cpu-XX/N", "N",
\* and anything else
Paths ==
    {[kind |-> k, cpu |-> 0, irq |-> 0] : k \in {"root", "bsp", "bad"}}
    \cup {[kind |-> "cpu", cpu |-> c, irq |-> 0] : c \in Cpus}
    \cup {[kind |-> "cpu_irq", cpu |-> c, irq |-> n] : c \in Cpus, n \in IrqInputs}
    \cup {[kind |-> "irq", cpu |-> 0, irq |-> n] : n \in IrqInputs}

\* irq.rs:113-139, up to is_reserved: <<outcome, handle>>; outcome "reserve"
\* stands for the path that goes on to set_reserved
open_ext_irq(flags, cpu_id, irq_number) ==
    IF irq_number < BASE_IRQ_COUNT /\ cpu_id = bsp_apic_id
    THEN <<"ok", IrqHandle(irq_number)>>
    ELSE IF irq_number < TOTAL_IRQ_COUNT
    THEN IF O_CREAT \notin flags /\ O_STAT \notin flags
         THEN <<"EINVAL", IrqHandle(0)>>
         ELSE IF O_STAT \notin flags
         THEN IF is_reserved(cpu_id, irq_to_vector(irq_number))
              THEN <<"EEXIST", IrqHandle(0)>>
              ELSE <<"reserve", IrqHandle(irq_number)>>
         ELSE <<"ok", IrqHandle(irq_number)>>
    ELSE <<"ENOENT", IrqHandle(0)>>

\* open_other with the legacy irqs opened like the extended ones, with O_CREAT
\* or O_STAT only
open_other_legacy_needs_creat(path, flags) ==
    IF path.kind = "root"
    THEN IF O_DIRECTORY \notin flags /\ O_STAT \notin flags
         THEN <<"EISDIR", IrqHandle(0)>>
         ELSE <<"ok", OtherHandle("TopLevel", 0)>>
    ELSE IF path.kind = "bsp"
    THEN <<"ok", OtherHandle("Bsp", 0)>>
    ELSE IF path.kind = "cpu"
    THEN <<"ok", OtherHandle("Avail", path.cpu)>>
    ELSE IF path.kind = "irq"
    THEN IF path.irq < BASE_IRQ_COUNT
         THEN IF O_CREAT \notin flags /\ O_STAT \notin flags
              THEN <<"EINVAL", IrqHandle(0)>>
              ELSE <<"ok", IrqHandle(path.irq)>>
         ELSE <<"ENOENT", IrqHandle(0)>>
    ELSE <<"ENOENT", IrqHandle(0)>>

\* irq.rs:150-215 for the paths that reserve nothing: <<outcome, handle>>
open_other(path, flags) ==
    IF path.kind = "root"
    THEN IF O_DIRECTORY \notin flags /\ O_STAT \notin flags
         THEN <<"EISDIR", IrqHandle(0)>>
         ELSE <<"ok", OtherHandle("TopLevel", 0)>>
    ELSE IF path.kind = "bsp"
    THEN <<"ok", OtherHandle("Bsp", 0)>>
    ELSE IF path.kind = "cpu"
    THEN <<"ok", OtherHandle("Avail", path.cpu)>>
    ELSE IF path.kind = "irq"
    THEN IF path.irq < BASE_IRQ_COUNT
         THEN <<"ok", IrqHandle(path.irq)>>
         ELSE <<"ENOENT", IrqHandle(0)>>
    ELSE <<"ENOENT", IrqHandle(0)>>

\* the opens that have passed is_reserved and not yet inserted their handle
OpensInFlight == Cardinality({q \in IrqProcs : ipc[q] = "open_set"})

\* irq.rs:150-219; an O_CREAT open of cpu-XX/N stops after is_reserved
IrqScheme_open(p, path, flags, uid) ==
    /\ ipc[p] = "idle"
    /\ next_fd + OpensInFlight < MaxFd
    /\ LET got == IF path.kind = "cpu_irq"
                  THEN open_ext_irq(flags, path.cpu, path.irq)
                  ELSE open_other(path, flags)
       IN IF uid # 0
          THEN /\ IWhole(p, OpenRet(0, Err("EACCES"), path, flags, uid))
               /\ UNCHANGED <<HANDLES, next_fd, resv>>
          ELSE IF got[1] = "reserve"
          THEN /\ ipc' = [ipc EXCEPT ![p] = "open_set"]
               /\ icall' = [icall EXCEPT ![p] =
                     [op |-> "open", fd |-> 0, cpu |-> path.cpu, irq |-> path.irq,
                      word |-> 0, flags |-> flags]]
               /\ iret' = NoIRet
               /\ UNCHANGED <<HANDLES, next_fd, resv>>
          ELSE IF got[1] = "ok"
          THEN /\ InsertHandle(got[2], <<>>)
               /\ IWhole(p, OpenRet(next_fd, Ok(next_fd), path, flags, uid))
          ELSE /\ IWhole(p, OpenRet(0, Err(got[1]), path, flags, uid))
               /\ UNCHANGED <<HANDLES, next_fd, resv>>
    /\ UNCHANGED <<COUNTS, reserved, trig, closed, acked>>

\* irq.rs:133-135 and 216-218: set_reserved(.., true), then the handle
open_set(p) ==
    /\ ipc[p] = "open_set"
    /\ reserved' = set_reserved(icall[p].cpu, irq_to_vector(icall[p].irq), TRUE)
    /\ InsertHandle(IrqHandle(icall[p].irq),
                    <<icall[p].cpu, irq_to_vector(icall[p].irq)>>)
    /\ IReturn(p, OpenRet(next_fd, Ok(next_fd),
                          [kind |-> "cpu_irq", cpu |-> icall[p].cpu,
                           irq |-> icall[p].irq],
                          icall[p].flags, 0))
    /\ UNCHANGED <<COUNTS, trig, closed, acked>>

\* irq.rs:254-258: what close() makes of the reservations
close_reserved(handle) ==
    IF handle.kind = "Irq" /\ handle.irq > BASE_IRQ_COUNT
    THEN set_reserved(0, irq_to_vector(handle.irq), FALSE)
    ELSE reserved

\* irq.rs:250-260
IrqScheme_close(p, fd) ==
    /\ IF ~HasHandle(fd)
       THEN /\ IWhole(p, IRet("close", fd, Err("EBADF"), 0, {}, {}))
            /\ UNCHANGED <<reserved, closed>>
       ELSE /\ reserved' = close_reserved(HANDLES[fd])
            /\ closed' = closed \cup {fd}
            /\ IWhole(p, IRet("close", fd, Ok(0), 0, {}, {}))
    /\ UNCHANGED <<COUNTS, HANDLES, next_fd, trig, resv, acked>>

\* kread_result that hands the count out whatever the ack is
kread_result_always_count(handle, len, current) ==
    IF len < SIZE_OF_USIZE
    THEN <<Err("EINVAL"), 0>>
    ELSE IF handle.kind = "Irq"
    THEN <<Ok(SIZE_OF_USIZE), current>>
    ELSE <<Ok(SIZE_OF_USIZE), bsp_apic_id>>

\* irq.rs:345-366: <<result, word written to the buffer>>, from the handle
\* as it is at the load of ack and the count loaded before it
kread_result(handle, len, current) ==
    IF handle.kind = "Irq"
    THEN IF len >= SIZE_OF_USIZE
         THEN IF handle.ack # current
              THEN <<Ok(SIZE_OF_USIZE), current>>
              ELSE <<Ok(0), 0>>
         ELSE <<Err("EINVAL"), 0>>
    ELSE IF len < SIZE_OF_USIZE
         THEN <<Err("EINVAL"), 0>>
         ELSE <<Ok(SIZE_OF_USIZE), bsp_apic_id>>

\* irq.rs:339-346, 356-366: the lookup, the length test and, on an Irq
\* handle, the load of COUNTS[irq]; a Bsp handle is read in one step
IrqScheme_kread(p, fd, len) ==
    /\ ipc[p] = "idle"
    /\ IF ~HasHandle(fd)
       THEN IWhole(p, IRet("kread", fd, Err("EBADF"), 0, {}, {}))
       ELSE /\ HANDLES[fd].kind \in {"Irq", "Bsp"}
            /\ IF HANDLES[fd].kind = "Irq" /\ len >= SIZE_OF_USIZE
               THEN /\ ipc' = [ipc EXCEPT ![p] = "kread_ack"]
                    /\ icall' = [icall EXCEPT ![p] =
                          [op |-> "kread", fd |-> fd, cpu |-> 0, irq |-> 0,
                           word |-> Count(HANDLES[fd].irq)]]
                    /\ iret' = NoIRet
               ELSE IWhole(p, IRet("kread", fd,
                                   kread_result(HANDLES[fd], len, 0)[1],
                                   kread_result(HANDLES[fd], len, 0)[2], {}, {}))
    /\ UNCHANGED <<COUNTS, HANDLES, next_fd, reserved, trig, resv, closed, acked>>

\* irq.rs:347-353: the load of ack, its comparison with the count loaded and
\* the write of the count to the buffer
kread_ack(p) ==
    /\ ipc[p] = "kread_ack"
    /\ LET fd == icall[p].fd
           r == kread_result(HANDLES[fd], SIZE_OF_USIZE, icall[p].word)
       IN IReturn(p, IRet("kread", fd, r[1], r[2], {}, {}))
    /\ UNCHANGED <<COUNTS, HANDLES, next_fd, reserved, trig, resv, closed, acked>>

\* ack_matches that takes any count not yet reached
ack_matches_at_least(ack, current) == ack >= current

\* irq.rs:271: ack == current
ack_matches(ack, current) == ack = current

\* irq.rs:263-272, 276-283: the lookup, the length test and the comparison of
\* the word with COUNTS[irq]
IrqScheme_kwrite(p, fd, len, word) ==
    /\ ipc[p] = "idle"
    /\ IF ~HasHandle(fd)
       THEN IWhole(p, IRet("kwrite", fd, Err("EBADF"), word, {}, {}))
       ELSE IF HANDLES[fd].kind # "Irq"
       THEN IWhole(p, IRet("kwrite", fd, Err("EBADF"), word, {}, {}))
       ELSE IF len < SIZE_OF_USIZE
       THEN IWhole(p, IRet("kwrite", fd, Err("EINVAL"), word, {}, {}))
       ELSE IF ack_matches(word, Count(HANDLES[fd].irq))
       THEN /\ ipc' = [ipc EXCEPT ![p] = "kwrite_store"]
            /\ icall' = [icall EXCEPT ![p] =
                  [op |-> "kwrite", fd |-> fd, cpu |-> 0, irq |-> 0, word |-> word]]
            /\ iret' = NoIRet
       ELSE IWhole(p, IRet("kwrite", fd, Ok(0), word, {}, {}))
    /\ UNCHANGED <<COUNTS, HANDLES, next_fd, reserved, trig, resv, closed, acked>>

\* handle_ack_store with the store left out
handle_ack_store_dropped(handle, ack) == handle

\* irq.rs:273: handle_ack.store(ack, Ordering::SeqCst)
handle_ack_store(handle, ack) == [handle EXCEPT !.ack = ack]

\* irq.rs:273-275: handle_ack.store(ack) and acknowledge(handle_irq)
kwrite_store(p) ==
    /\ ipc[p] = "kwrite_store"
    /\ LET fd == icall[p].fd IN
       /\ HANDLES' = [HANDLES EXCEPT
                         ![fd] = handle_ack_store(@, icall[p].word)]
       /\ IReturn(p, IRet("kwrite", fd, Ok(SIZE_OF_USIZE), icall[p].word, {},
                          {HANDLES[fd].irq}))
       /\ acked' = IF icall[p].word = Count(HANDLES[fd].irq)
                   THEN acked \cup {fd} ELSE acked
    /\ UNCHANGED <<COUNTS, next_fd, reserved, trig, resv, closed>>

Fds == 0..MaxFd

(***************************************************************************)
(* Scheduler switch state.                                                 *)
(***************************************************************************)
\* contexts in the context table
NCtx == 3
\* signals sent over a run
MaxSignals == 1
\* the monotonic clock stops here
MaxTime == 1
\* ptrace stops over a run
MaxStops == 1
\* signals sent over a run of the signal specification
MaxQueued == 2

CtxIds == 1..NCtx
NoCpu == 255
NoCtx == 0
NoWake == 0
NoSig == 0
\* Context::kstack is None
NoStack == <<>>
\* no panic
NoPanic == "none"
\* the length of a kernel stack in the model
StackLen == 2
\* the values of the saved registers, of the FPU state and of the bytes of a
\* kernel stack go from 0 to this
MaxArch == 1
\* Context::ksig is None: no saved state
NoSaved == <<>>

VARIABLES
    CONTEXT_SWITCH_LOCK,    \* arch::CONTEXT_SWITCH_LOCK
    contexts,               \* the context table: id -> Context
    ctx_lock,               \* id -> the CPU that holds the context's write lock
    CONTEXT_ID,             \* per CPU: the id of its current context
    SWITCH_RESULT,          \* switch.rs:92, per CPU: <<prev, next>> or <<>>
    spc,                    \* per CPU: position in switch()
    sw,                     \* per CPU: prev and next of the switch in progress
    sret,                   \* per CPU: what its last switch() returned
    now,                    \* time::monotonic()
    sent,                   \* signals sent so far
    stops,                  \* ptrace stops so far
    tss                     \* per CPU: pcr().tss.rsp[0]

switchVars == <<CONTEXT_SWITCH_LOCK, contexts, ctx_lock, CONTEXT_ID, SWITCH_RESULT,
                spc, sw, sret, now, sent, stops, tss>>

\* ksig is the signal of Context::ksig and ksig_saved the arch, kfx and
\* kstack saved with it
Context(running, cpu_id, sched_affinity, kstack) ==
    [running |-> running, ptrace_stop |-> FALSE, cpu_id |-> cpu_id,
     sched_affinity |-> sched_affinity, status |-> "Runnable",
     ksig_restore |-> FALSE, ksig |-> NoSig, pending |-> <<>>, wake |-> NoWake,
     kstack |-> kstack, arch |-> 0, kfx |-> 0, ksig_saved |-> NoSaved]

\* gdt.rs:199-200: the end of the stack a CPU boots on, which init_paging
\* puts into tss.rsp[0]
BootStackEnd(k) == (k + 1) * StackLen

\* what a kernel stack holds: its bytes, and the single-step flag of the
\* registers saved on it
StackContents(data, singlestep) == [data |-> data, singlestep |-> singlestep]

\* the kernel stack of a spawned context: <<address, length, contents>>
Kstack(c) == <<(NCpus + c) * StackLen, StackLen, StackContents(0, FALSE)>>

\* every CPU runs a context of its own; the other contexts are runnable,
\* not yet owned, with or without an affinity
SwitchInitWith(aff) ==
    /\ CONTEXT_SWITCH_LOCK = FALSE
    /\ contexts = [c \in CtxIds |->
                     IF c <= NCpus THEN Context(TRUE, c - 1, NoCpu, NoStack)
                     ELSE Context(FALSE, NoCpu, aff[c], Kstack(c))]
    /\ ctx_lock = [c \in CtxIds |-> NoCpu]
    /\ CONTEXT_ID = [k \in Cpus |-> k + 1]
    /\ SWITCH_RESULT = [k \in Cpus |-> <<>>]
    /\ spc = [k \in Cpus |-> "run"]
    /\ sw = [k \in Cpus |-> <<NoCtx, NoCtx>>]
    /\ sret = [k \in Cpus |-> "none"]
    /\ now = 0
    /\ sent = 0
    /\ stops = 0
    /\ tss = [k \in Cpus |-> BootStackEnd(k)]

SwitchInit == \E aff \in [CtxIds -> Cpus \cup {NoCpu}] : SwitchInitWith(aff)

\* the CPUs that are up while the bootstrap processor runs alone
UpCpus == {k \in Cpus : k < 1}

\* the bootstrap processor runs the first context and the other processors
\* are not in a context yet; the other contexts are runnable, not yet owned,
\* with no affinity or with an affinity for a processor that is not up (an
\* affinity for the bootstrap processor makes no difference while it is the
\* only one that scans)
ScanInitWith(aff) ==
    /\ CONTEXT_SWITCH_LOCK = FALSE
    /\ contexts = [c \in CtxIds |->
                     IF c = 1 THEN Context(TRUE, 0, NoCpu, NoStack)
                     ELSE Context(FALSE, NoCpu, aff[c], Kstack(c))]
    /\ ctx_lock = [c \in CtxIds |-> NoCpu]
    /\ CONTEXT_ID = [k \in Cpus |-> IF k \in UpCpus THEN 1 ELSE NoCtx]
    /\ SWITCH_RESULT = [k \in Cpus |-> <<>>]
    /\ spc = [k \in Cpus |-> "run"]
    /\ sw = [k \in Cpus |-> <<NoCtx, NoCtx>>]
    /\ sret = [k \in Cpus |-> "none"]
    /\ now = 0
    /\ sent = 0
    /\ stops = 0
    /\ tss = [k \in Cpus |-> BootStackEnd(k)]

ScanInit == \E aff \in [CtxIds -> (Cpus \ UpCpus) \cup {NoCpu}] : ScanInitWith(aff)

\* Context::unblock
unblock(context) ==
    IF context.status = "Blocked" THEN [context EXCEPT !.status = "Runnable"]
    ELSE context

\* switch.rs:45, 50-54: the panic of the restore from signal, or NoPanic
restore_panic(context) ==
    IF ~context.ksig_restore THEN NoPanic
    ELSE IF context.ksig = NoSig THEN "ksig not set with ksig_restore"
    ELSE IF context.kstack = NoStack THEN "kstack not set with ksig_restore"
    ELSE IF context.ksig_saved[3] = NoStack
         THEN "ksig kstack not set with ksig_restore"
    ELSE NoPanic

\* ptrace::regs_for(context).map(|s| s.is_singlestep()).unwrap_or(false):
\* the flag of the registers on the kernel stack, false without a stack
is_singlestep(context) ==
    IF context.kstack = NoStack THEN FALSE ELSE context.kstack[3].singlestep

\* switch.rs:59-61: regs.set_singlestep(was_singlestep), if there are
\* registers
set_singlestep(stack, was_singlestep) ==
    IF stack = NoStack THEN stack
    ELSE <<stack[1], stack[2], [stack[3] EXCEPT !.singlestep = was_singlestep]>>

\* switch.rs:50-51: kstack.copy_from_slice(&ksig.2): the contents are
\* copied, the stack stays where it is
copy_from_slice(stack, saved) == <<stack[1], stack[2], saved[3]>>

\* a restore that takes ksig and leaves ksig_restore set
restore_ksig_keeps_flag(context) ==
    IF context.ksig_restore
    THEN unblock([context EXCEPT !.ksig = NoSig, !.ksig_saved = NoSaved])
    ELSE context

\* a restore that leaves the saved FPU state in ksig
restore_ksig_without_kfx(context) ==
    IF context.ksig_restore
    THEN unblock([context EXCEPT
                    !.arch = context.ksig_saved[1],
                    !.kstack = set_singlestep(
                                  copy_from_slice(@, context.ksig_saved[3]),
                                  is_singlestep(context)),
                    !.ksig = NoSig, !.ksig_saved = NoSaved,
                    !.ksig_restore = FALSE])
    ELSE context

\* switch.rs:41-64: restore from signal, where it does not panic
restore_ksig(context) ==
    IF context.ksig_restore
    THEN unblock([context EXCEPT
                    !.arch = context.ksig_saved[1],
                    !.kfx = context.ksig_saved[2],
                    !.kstack = set_singlestep(
                                  copy_from_slice(@, context.ksig_saved[3]),
                                  is_singlestep(context)),
                    !.ksig = NoSig, !.ksig_saved = NoSaved,
                    !.ksig_restore = FALSE])
    ELSE context

\* switch.rs:66-69: unblock when there are pending signals
unblock_pending(context) ==
    IF context.status = "Blocked" /\ context.pending # <<>>
    THEN unblock(context) ELSE context

\* a wake from sleep that waits until the deadline is past
wake_sleeper_late(context, current) ==
    IF context.status = "Blocked" /\ context.wake # NoWake /\ current > context.wake
    THEN unblock([context EXCEPT !.wake = NoWake]) ELSE context

\* switch.rs:71-80: wake from sleep
wake_sleeper(context, current) ==
    IF context.status = "Blocked" /\ context.wake # NoWake /\ current >= context.wake
    THEN unblock([context EXCEPT !.wake = NoWake]) ELSE context

\* take_ownership that claims a context another CPU owns
take_ownership_steals(context, cpu_id) ==
    IF context.sched_affinity = NoCpu \/ context.sched_affinity = cpu_id
    THEN [context EXCEPT !.cpu_id = cpu_id] ELSE context

\* take_ownership that ignores the affinity of the context
take_ownership_any_affinity(context, cpu_id) ==
    IF context.cpu_id = NoCpu
    THEN [context EXCEPT !.cpu_id = cpu_id] ELSE context

\* switch.rs:29-34: take ownership if not already owned
take_ownership(context, cpu_id) ==
    IF context.cpu_id = NoCpu
       /\ (context.sched_affinity = NoCpu \/ context.sched_affinity = cpu_id)
    THEN [context EXCEPT !.cpu_id = cpu_id] ELSE context

\* update_runnable without its early returns: only the status decides
update_runnable_status_only(context, cpu_id, current) ==
    LET c == wake_sleeper(unblock_pending(restore_ksig(context)), current)
    IN  <<c, c.status = "Runnable">>

\* update_runnable with the restore from the signal ahead of its returns
update_runnable_restore_first(context, cpu_id, current) ==
    LET restored == restore_ksig(context) IN
    IF restored.running THEN <<restored, FALSE>>
    ELSE IF restored.ptrace_stop THEN <<restored, FALSE>>
    ELSE LET owned == take_ownership(restored, cpu_id) IN
         IF owned.cpu_id # cpu_id THEN <<owned, FALSE>>
         ELSE LET c == wake_sleeper(unblock_pending(owned), current)
              IN  <<c, c.status = "Runnable">>

\* update_runnable without the ownership of the context: no claim of cpu_id
\* and no return for a context of another CPU
update_runnable_any_owner(context, cpu_id, current) ==
    IF context.running THEN <<context, FALSE>>
    ELSE IF context.ptrace_stop THEN <<context, FALSE>>
    ELSE LET c == wake_sleeper(unblock_pending(restore_ksig(context)), current)
         IN  <<c, c.status = "Runnable">>

\* switch.rs:18-84: <<the context afterwards, the result>>
update_runnable(context, cpu_id, current) ==
    IF context.running THEN <<context, FALSE>>
    ELSE IF context.ptrace_stop THEN <<context, FALSE>>
    ELSE LET owned == take_ownership(context, cpu_id) IN
         IF owned.cpu_id # cpu_id THEN <<owned, FALSE>>
         ELSE LET c == wake_sleeper(unblock_pending(restore_ksig(owned)), current)
              IN  <<c, c.status = "Runnable">>

\* switch.rs:18-64: the panic of update_runnable, which is that of the
\* restore if the context gets that far, or NoPanic
update_runnable_panic(context, cpu_id) ==
    IF context.running \/ context.ptrace_stop THEN NoPanic
    ELSE IF take_ownership(context, cpu_id).cpu_id # cpu_id THEN NoPanic
    ELSE restore_panic(context)

\* the ids from lo to hi in increasing order
RECURSIVE Ascending(_, _)
Ascending(lo, hi) == IF lo > hi THEN <<>> ELSE <<lo>> \o Ascending(lo + 1, hi)

\* the scan from the lowest id upwards, with no start after the current id
ScanOrder_from_lowest(prev) == Ascending(1, prev - 1) \o Ascending(prev + 1, NCtx)

\* the scan from the highest id downwards, with no start after the current
\* id
ScanOrder_highest_first(prev) ==
    LET s == Ascending(1, prev - 1) \o Ascending(prev + 1, NCtx)
    IN  [i \in 1..Len(s) |-> s[Len(s) + 1 - i]]

\* switch.rs:132-141: the ids after prev in increasing order, then those
\* before it
ScanOrder(prev) == Ascending(prev + 1, NCtx) \o Ascending(1, prev - 1)

\* switch.rs:132-159: the scan; <<the table afterwards, the chosen id or
\* NoCtx, NoPanic>>, or <<the table, the id at which update_runnable
\* panicked, the panic>>
RECURSIVE Scan(_, _, _, _, _)
Scan(table, order, i, cpu_id, current) ==
    IF i > Len(order) THEN <<table, NoCtx, NoPanic>>
    ELSE LET id == order[i]
             panic == update_runnable_panic(table[id], cpu_id)
             r == update_runnable(table[id], cpu_id, current)
             next == [table EXCEPT ![id] = r[1]]
         IN  IF panic # NoPanic
             THEN <<[table EXCEPT ![id] = take_ownership(@, cpu_id)], id, panic>>
             ELSE IF r[2] THEN <<next, id, NoPanic>>
             ELSE Scan(next, order, i + 1, cpu_id, current)

\* switch.rs:110-113: a CPU enters switch()
switch(k) ==
    /\ spc[k] = "run"
    /\ spc' = [spc EXCEPT ![k] = "acquire"]
    /\ sret' = [sret EXCEPT ![k] = "none"]
    /\ UNCHANGED <<CONTEXT_SWITCH_LOCK, contexts, ctx_lock, CONTEXT_ID, SWITCH_RESULT,
                   sw, now, sent, stops,
                   tss>>

\* a compare_exchange_weak that stores without comparing
compare_exchange_weak_blind(value, current, new) == <<TRUE, new>>

\* AtomicBool::compare_exchange_weak: <<whether it stored, the value
\* afterwards>>; a failure, spurious or not, stores nothing
compare_exchange_weak(value, current, new) ==
    IF value = current THEN <<TRUE, new>> ELSE <<FALSE, value>>

\* switch.rs:116-118: the loop leaves when
\* compare_exchange_weak(false, true) has stored
switch_acquire(k) ==
    /\ spc[k] = "acquire"
    /\ LET r == compare_exchange_weak(CONTEXT_SWITCH_LOCK, FALSE, TRUE)
       IN  r[1] /\ CONTEXT_SWITCH_LOCK' = r[2]
    /\ spc' = [spc EXCEPT ![k] = "scan"]
    /\ UNCHANGED <<contexts, ctx_lock, CONTEXT_ID, SWITCH_RESULT, sw, sret, now, sent,
                   stops,
                   tss>>

\* switch.rs:120-160 and 206-211: the previous context is locked and the
\* others are scanned; with no target the global lock is released; a panic
\* (panic.rs:11-35) halts the CPU with every lock it holds
switch_scan(k) ==
    /\ spc[k] = "scan"
    /\ \A c \in CtxIds : ctx_lock[c] = NoCpu
    /\ LET prev == CONTEXT_ID[k]
           found == Scan(contexts, ScanOrder(prev), 1, k, now)
       IN /\ contexts' = found[1]
          /\ IF found[3] # NoPanic
             THEN /\ ctx_lock' = [ctx_lock EXCEPT ![prev] = k, ![found[2]] = k]
                  /\ spc' = [spc EXCEPT ![k] = "panic"]
                  /\ sret' = [sret EXCEPT ![k] = found[3]]
                  /\ UNCHANGED <<CONTEXT_SWITCH_LOCK, sw>>
             ELSE IF found[2] # NoCtx
             THEN /\ ctx_lock' = [ctx_lock EXCEPT ![prev] = k, ![found[2]] = k]
                  /\ sw' = [sw EXCEPT ![k] = <<prev, found[2]>>]
                  /\ spc' = [spc EXCEPT ![k] = "commit"]
                  /\ UNCHANGED <<CONTEXT_SWITCH_LOCK, sret>>
             ELSE /\ CONTEXT_SWITCH_LOCK' = FALSE
                  /\ spc' = [spc EXCEPT ![k] = "run"]
                  /\ sret' = [sret EXCEPT ![k] = "false"]
                  /\ UNCHANGED <<ctx_lock, sw>>
    /\ UNCHANGED <<CONTEXT_ID, SWITCH_RESULT, now, sent, stops,
                   tss>>

(***************************************************************************)
(* The scan of switch() lock by lock: the same code as switch_scan, with   *)
(* every write lock it takes and drops as a step of its own.               *)
(***************************************************************************)
\* an iteration that starts again at the first candidate after the last
RECURSIVE After_cyclic(_, _, _)
After_cyclic(order, i, id) ==
    IF i > Len(order) THEN order[1]
    ELSE IF order[i] = id
         THEN (IF i < Len(order) THEN order[i + 1] ELSE order[1])
         ELSE After_cyclic(order, i + 1, id)

\* the candidate after id in the order of the scan, or NoCtx
RECURSIVE After(_, _, _)
After(order, i, id) ==
    IF i > Len(order) THEN NoCtx
    ELSE IF order[i] = id
         THEN (IF i < Len(order) THEN order[i + 1] ELSE NoCtx)
         ELSE After(order, i + 1, id)

\* switch.rs:127-131: the write lock of the previous context is taken and
\* the iteration starts
switch_lock_prev(k) ==
    /\ spc[k] = "scan"
    /\ LET prev == CONTEXT_ID[k] IN
       /\ ctx_lock[prev] = NoCpu
       /\ ctx_lock' = [ctx_lock EXCEPT ![prev] = k]
       /\ sw' = [sw EXCEPT ![k] = <<prev, Head(ScanOrder(prev))>>]
    /\ spc' = [spc EXCEPT ![k] = "lock_next"]
    /\ UNCHANGED <<CONTEXT_SWITCH_LOCK, contexts, CONTEXT_ID, SWITCH_RESULT, sret,
                   now, sent, stops, tss>>

\* switch.rs:143-144: next_context_lock.write()
switch_lock_next(k) ==
    /\ spc[k] = "lock_next"
    /\ ctx_lock[sw[k][2]] = NoCpu
    /\ ctx_lock' = [ctx_lock EXCEPT ![sw[k][2]] = k]
    /\ spc' = [spc EXCEPT ![k] = "update"]
    /\ UNCHANGED <<CONTEXT_SWITCH_LOCK, contexts, CONTEXT_ID, SWITCH_RESULT, sw,
                   sret, now, sent, stops, tss>>

\* switch.rs:146-158: update_runnable on the locked candidate; if it holds
\* both guards are leaked and the loop ends, otherwise the guard of the
\* candidate is dropped and the loop goes on; a panic halts the CPU
switch_update_runnable(k) ==
    /\ spc[k] = "update"
    /\ LET prev == sw[k][1]
           id == sw[k][2]
           panic == update_runnable_panic(contexts[id], k)
           r == update_runnable(contexts[id], k, now)
           after == After(ScanOrder(prev), 1, id)
       IN /\ contexts' = [contexts EXCEPT ![id] =
                            IF panic # NoPanic THEN take_ownership(@, k) ELSE r[1]]
          /\ IF panic # NoPanic
             THEN /\ spc' = [spc EXCEPT ![k] = "panic"]
                  /\ sret' = [sret EXCEPT ![k] = panic]
                  /\ UNCHANGED <<ctx_lock, sw>>
             ELSE IF r[2]
             THEN /\ spc' = [spc EXCEPT ![k] = "commit"]
                  /\ UNCHANGED <<ctx_lock, sw, sret>>
             ELSE /\ ctx_lock' = [ctx_lock EXCEPT ![id] = NoCpu]
                  /\ sw' = [sw EXCEPT ![k] = <<prev, after>>]
                  /\ spc' = [spc EXCEPT ![k] =
                                IF after = NoCtx THEN "none" ELSE "lock_next"]
                  /\ UNCHANGED sret
    /\ UNCHANGED <<CONTEXT_SWITCH_LOCK, CONTEXT_ID, SWITCH_RESULT, now, sent,
                   stops, tss>>

\* switch.rs:160 and 206-211: with no target the guard of the previous
\* context is dropped, the global lock is released and switch() returns false
switch_none(k) ==
    /\ spc[k] = "none"
    /\ ctx_lock' = [ctx_lock EXCEPT ![sw[k][1]] = NoCpu]
    /\ CONTEXT_SWITCH_LOCK' = FALSE
    /\ sw' = [sw EXCEPT ![k] = <<NoCtx, NoCtx>>]
    /\ spc' = [spc EXCEPT ![k] = "run"]
    /\ sret' = [sret EXCEPT ![k] = "false"]
    /\ UNCHANGED <<contexts, CONTEXT_ID, SWITCH_RESULT, now, sent, stops, tss>>

\* arch.signal_stack(signal_handler, sig): the saved registers are set up
\* to enter the handler of the signal
signal_stack(arch, sig) == MaxArch + sig

\* an injection that takes the newest pending signal
inject_signal_newest(context) ==
    IF context.ksig = NoSig /\ context.pending # <<>>
    THEN [context EXCEPT !.ksig = context.pending[Len(context.pending)],
                         !.ksig_saved = <<context.arch, context.kfx,
                                          context.kstack>>,
                         !.pending = SubSeq(context.pending, 1,
                                            Len(context.pending) - 1),
                         !.arch = signal_stack(@,
                                     context.pending[Len(context.pending)])]
    ELSE context

\* switch.rs:182-192: the oldest pending signal goes to ksig with clones of
\* arch, kfx and kstack, and arch is set up for the handler
inject_signal(context) ==
    IF context.ksig = NoSig /\ context.pending # <<>>
    THEN [context EXCEPT !.ksig = Head(context.pending),
                         !.ksig_saved = <<context.arch, context.kfx,
                                          context.kstack>>,
                         !.pending = Tail(context.pending),
                         !.arch = signal_stack(@, Head(context.pending))]
    ELSE context

\* switch_running that leaves the previous context running
switch_running_next_only(ctxs, prev, next) ==
    [ctxs EXCEPT ![next].running = TRUE]

\* switch.rs:165-166, 170-171: prev_context.running = false and
\* next_context.running = true
switch_running(ctxs, prev, next) ==
    [ctxs EXCEPT ![prev].running = FALSE, ![next].running = TRUE]

\* the address of the stack alone, without its length
kstack_start(stack) == stack[1]

\* switch.rs:177: stack.as_ptr() as usize + stack.len()
kstack_end(stack) == stack[1] + stack[2]

\* gdt.rs:114-118: set_tss_stack without pti writes the address to tss.rsp[0]
\* of this CPU
set_tss_stack(t, k, stack) == [t EXCEPT ![k] = stack]

\* switch.rs:163-197: the running flags, the TSS stack, CONTEXT_ID, the
\* signal, SWITCH_RESULT
switch_commit(k) ==
    /\ spc[k] = "commit"
    /\ LET prev == sw[k][1]
           next == sw[k][2]
       IN /\ contexts' = [switch_running(contexts, prev, next) EXCEPT
                            ![next] = inject_signal(@)]
          /\ CONTEXT_ID' = [CONTEXT_ID EXCEPT ![k] = next]
          /\ tss' = IF contexts[next].kstack # NoStack
                    THEN set_tss_stack(tss, k, kstack_end(contexts[next].kstack))
                    ELSE tss
          /\ SWITCH_RESULT' = [SWITCH_RESULT EXCEPT ![k] = <<prev, next>>]
    /\ spc' = [spc EXCEPT ![k] = "switch_to"]
    /\ UNCHANGED <<CONTEXT_SWITCH_LOCK, ctx_lock, sw, sret, now, sent, stops>>

\* a take() that leaves the value in the cell
Cell_take_leaves(value) == value

\* switch.rs:95: Cell::take leaves None in the cell
Cell_take(value) == <<>>

\* switch.rs:94-103, 199-205: on the far side of switch_to the hook takes
\* the SwitchResult, unlocks both contexts and releases the global lock;
\* with no SwitchResult it aborts
switch_finish_hook(k) ==
    /\ spc[k] \in {"switch_to", "hook"}
    /\ IF SWITCH_RESULT[k] # <<>>
       THEN /\ ctx_lock' = [c \in CtxIds |->
                              IF c \in {SWITCH_RESULT[k][1], SWITCH_RESULT[k][2]}
                              THEN NoCpu ELSE ctx_lock[c]]
            /\ SWITCH_RESULT' = [SWITCH_RESULT EXCEPT ![k] = Cell_take(@)]
            /\ CONTEXT_SWITCH_LOCK' = FALSE
            /\ spc' = [spc EXCEPT ![k] = "run"]
            /\ sw' = [sw EXCEPT ![k] = <<NoCtx, NoCtx>>]
            /\ sret' = [sret EXCEPT ![k] = "true"]
       ELSE /\ spc' = [spc EXCEPT ![k] = "abort"]
            /\ UNCHANGED <<CONTEXT_SWITCH_LOCK, ctx_lock, SWITCH_RESULT, sw, sret>>
    /\ UNCHANGED <<contexts, CONTEXT_ID, now, sent, stops,
                   tss>>

\* switch_finish_hook is entered by a caller other than switch_to, outside
\* any switch
hook_call(k) ==
    /\ spc[k] = "run"
    /\ spc' = [spc EXCEPT ![k] = "hook"]
    /\ UNCHANGED <<CONTEXT_SWITCH_LOCK, contexts, ctx_lock, CONTEXT_ID, SWITCH_RESULT,
                   sw, sret, now, sent, stops, tss>>

(***************************************************************************)
(* What the rest of the kernel does to a context, each under the           *)
(* context's write lock.                                                   *)
(***************************************************************************)
\* Context::block, by the context itself, with or without a deadline
context_block(k, wake) ==
    /\ spc[k] = "run"
    /\ LET c == CONTEXT_ID[k] IN
       /\ ctx_lock[c] = NoCpu
       /\ contexts[c].status = "Runnable"
       /\ contexts' = [contexts EXCEPT ![c].status = "Blocked", ![c].wake = wake]
    /\ UNCHANGED <<CONTEXT_SWITCH_LOCK, ctx_lock, CONTEXT_ID, SWITCH_RESULT, spc, sw,
                   sret, now, sent, stops,
                   tss>>

\* Context::unblock, by whoever wakes the context
context_unblock(c) ==
    /\ ctx_lock[c] = NoCpu
    /\ contexts[c].status = "Blocked"
    /\ contexts' = [contexts EXCEPT ![c] = unblock(@)]
    /\ UNCHANGED <<CONTEXT_SWITCH_LOCK, ctx_lock, CONTEXT_ID, SWITCH_RESULT, spc, sw,
                   sret, now, sent, stops,
                   tss>>

\* a signal is queued for the context, while fewer than budget were sent
context_signal(c, sig, budget) ==
    /\ ctx_lock[c] = NoCpu
    /\ sent < budget
    /\ sent' = sent + 1
    /\ contexts' = [contexts EXCEPT ![c].pending = Append(@, sig)]
    /\ UNCHANGED <<CONTEXT_SWITCH_LOCK, ctx_lock, CONTEXT_ID, SWITCH_RESULT, spc, sw,
                   sret, now, stops,
                   tss>>

\* the signal handler of the current context returns: it asks for the
\* restore and blocks
signal_return(k) ==
    /\ spc[k] = "run"
    /\ LET c == CONTEXT_ID[k] IN
       /\ ctx_lock[c] = NoCpu
       /\ contexts[c].ksig # NoSig
       /\ ~contexts[c].ksig_restore
       /\ contexts' = [contexts EXCEPT ![c].ksig_restore = TRUE,
                                       ![c].status = "Blocked"]
    /\ UNCHANGED <<CONTEXT_SWITCH_LOCK, ctx_lock, CONTEXT_ID, SWITCH_RESULT, spc, sw,
                   sret, now, sent, stops,
                   tss>>

\* the current context of a CPU executes: its registers, its FPU state and
\* what is on its kernel stack change
context_run(k, arch, kfx, contents) ==
    /\ spc[k] = "run"
    /\ LET c == CONTEXT_ID[k] IN
       /\ ctx_lock[c] = NoCpu
       /\ contexts[c].kstack # NoStack
       /\ contexts' = [contexts EXCEPT
                         ![c].arch = arch, ![c].kfx = kfx,
                         ![c].kstack = <<@[1], @[2], contents>>]
    /\ UNCHANGED <<CONTEXT_SWITCH_LOCK, ctx_lock, CONTEXT_ID, SWITCH_RESULT, spc, sw,
                   sret, now, sent, stops, tss>>

\* ptrace stops a context, or lets it go on
ptrace_stop(c) ==
    /\ ctx_lock[c] = NoCpu
    /\ IF contexts[c].ptrace_stop
       THEN /\ contexts' = [contexts EXCEPT ![c].ptrace_stop = FALSE]
            /\ UNCHANGED stops
       ELSE /\ stops < MaxStops
            /\ stops' = stops + 1
            /\ contexts' = [contexts EXCEPT ![c].ptrace_stop = TRUE]
    /\ UNCHANGED <<CONTEXT_SWITCH_LOCK, ctx_lock, CONTEXT_ID, SWITCH_RESULT, spc, sw,
                   sret, now, sent,
                   tss>>

\* the monotonic clock advances
tick ==
    /\ now < MaxTime
    /\ now' = now + 1
    /\ UNCHANGED <<CONTEXT_SWITCH_LOCK, contexts, ctx_lock, CONTEXT_ID, SWITCH_RESULT,
                   spc, sw, sret, sent, stops,
                   tss>>

(***************************************************************************)
(* The fast syscall gate (arch/x86_64/interrupt/syscall.rs).               *)
(***************************************************************************)
\* width of RIP in the model (64 on the machine)
RIP_BITS == 5
\* width of a DWORD in the model (32 on the machine)
DWORD_BITS == 3
\* the lowest bit of RIP that must be a copy of the sign (47 on the machine)
SIGN_BIT == 3
\* the values of RFLAGS user code enters with
MaxRflags == 1
\* the syscall numbers user code puts in RAX
MaxNr == 1
\* the values the syscall handler returns
MaxRet == 1

Rips == 0..(2 ^ RIP_BITS - 1)

VARIABLES
    gate,           \* position in syscall_instruction: user, inner, test, fast, slow
    frame,          \* the frame pushed on the kernel stack: rip and rflags
    regs,           \* the registers rcx and r11
    gs,             \* whose GS base is active: "user" or "kernel"
    left,           \* how the gate was last left: the instruction and the RIP it loads
    disp            \* what the dispatcher did in the call under way, in order

gateVars == <<gate, frame, regs, gs, left, disp>>

\* an Option: None, or Some(v) as <<v>>
None == <<>>
Some(v) == <<v>>

\* no dispatcher has run in this call yet
NoDisp == [callback |-> None, next |-> None, events |-> <<>>, nr |-> 0, ret |-> None]

\* the flags a tracer can ask the next breakpoint for
PtraceFlagSets == {{}, {"PTRACE_FLAG_IGNORE"}}

GateInit ==
    /\ gate = "user"
    /\ frame = [rip |-> 0, rflags |-> 0, rax |-> 0]
    /\ disp = NoDisp
    /\ regs = [rcx |-> 0, r11 |-> 0]
    /\ gs = "user"
    /\ left = [by |-> "none", rip |-> 0]

\* bitwise and of two naturals below 2 ^ n
RECURSIVE BitAnd(_, _, _)
BitAnd(a, b, n) ==
    IF n = 0 THEN 0
    ELSE (a % 2) * (b % 2) + 2 * BitAnd(a \div 2, b \div 2, n - 1)

\* syscall.rs:129 with bit 47 left out of the mask (0xFFFF0000)
TEST_MASK_without_bit_47 == 2 ^ DWORD_BITS - 2 ^ (SIGN_BIT + 1 - (RIP_BITS - DWORD_BITS))

\* syscall.rs:129: 0xFFFF8000, bits 47..=63 of RIP as bits of its high DWORD
TEST_MASK == 2 ^ DWORD_BITS - 2 ^ (SIGN_BIT - (RIP_BITS - DWORD_BITS))

\* syscall.rs:129: DWORD PTR [rsp + 4], the high DWORD of the pushed RCX
HighDword(rip) == rip \div (2 ^ (RIP_BITS - DWORD_BITS))

\* bits 47..=63 of an address are all 0 or all 1
Canonical(rip) ==
    LET top == rip \div (2 ^ SIGN_BIT)
    IN  top = 0 \/ top = 2 ^ (RIP_BITS - SIGN_BIT) - 1

\* syscall.rs:84-95: the syscall instruction has put the return RIP in RCX and
\* RFLAGS in R11; the gate swaps GS and pushes both
syscall_instruction(rip, rflags, rax) ==
    /\ gate = "user"
    /\ gs' = "kernel"
    /\ regs' = [rcx |-> rip, r11 |-> rflags]
    /\ frame' = [rip |-> rip, rflags |-> rflags, rax |-> rax]
    /\ gate' = "inner"
    /\ left' = [by |-> "none", rip |-> 0]
    /\ disp' = NoDisp

\* the closure of allowed without the negation
allowed_if_ignore(callback, next) ==
    IF callback = None \/ next = None THEN None
    ELSE Some("PTRACE_FLAG_IGNORE" \in next[1])

\* syscall.rs:58-59: breakpoint_callback(PTRACE_STOP_PRE_SYSCALL, None)
\*   .and_then(|_| next_breakpoint().map(|f| !f.contains(PTRACE_FLAG_IGNORE)))
allowed(callback, next) ==
    IF callback = None \/ next = None THEN None
    ELSE Some("PTRACE_FLAG_IGNORE" \notin next[1])

\* Option::unwrap_or
unwrap_or(option, default) == IF option = None THEN default ELSE option[1]

\* syscall.rs:56-82, 107-108: __inner_syscall_instruction runs: the
\* pre-syscall breakpoint, the handler unless the tracer asked to ignore the
\* call, with its result stored in the RAX slot of the frame, and the
\* post-syscall breakpoint; at a breakpoint a tracer may have written any
\* RIP to the frame; next_breakpoint() is evaluated only after a breakpoint;
\* the scratch registers come back from the frame
inner_syscall_instruction(rip, callback, next, result) ==
    /\ gate = "inner"
    /\ callback = None => next = None /\ rip = frame.rip
    /\ LET run == unwrap_or(allowed(callback, next), TRUE)
       IN /\ frame' = [frame EXCEPT !.rip = rip,
                                     !.rax = IF run THEN result ELSE @]
          /\ disp' = [callback |-> callback,
                      next |-> next,
                      events |-> <<"PTRACE_STOP_PRE_SYSCALL">>
                                 \o (IF run THEN <<"syscall">> ELSE <<>>)
                                 \o <<"PTRACE_STOP_POST_SYSCALL">>,
                      nr |-> frame.rax,
                      ret |-> IF run THEN Some(result) ELSE None]
    /\ gate' = "test"
    /\ UNCHANGED <<regs, gs, left>>

\* syscall.rs:127-133: test DWORD PTR [rsp + 4], 0xFFFF8000; jnz 1f
test_rcx ==
    /\ gate = "test"
    /\ gate' = IF BitAnd(HighDword(frame.rip), TEST_MASK, DWORD_BITS) # 0
               THEN "slow" ELSE "fast"
    /\ UNCHANGED <<frame, regs, gs, left, disp>>

\* syscall.rs:137-143: the fast return
sysretq ==
    /\ gate = "fast"
    /\ regs' = [rcx |-> frame.rip, r11 |-> frame.rflags]
    /\ gs' = "user"
    /\ left' = [by |-> "sysretq", rip |-> frame.rip]
    /\ gate' = "user"
    /\ disp' = NoDisp
    /\ UNCHANGED frame

\* syscall.rs:145-151: the slow return
iretq ==
    /\ gate = "slow"
    /\ regs' = [rcx |-> 0, r11 |-> 0]
    /\ gs' = "user"
    /\ left' = [by |-> "iretq", rip |-> frame.rip]
    /\ gate' = "user"
    /\ disp' = NoDisp
    /\ UNCHANGED frame

(***************************************************************************)
(* What the scans of a CPU have passed by, for the order of its choices.   *)
(***************************************************************************)
VARIABLE
    passed      \* per CPU and context c: the contexts that have been eligible
                \* on the CPU in every state since its scan last chose c

\* switch.rs:18-39, 83: a context that update_runnable accepts for the CPU
\* as it is: runnable, not running, not stopped, owned by the CPU or open
\* to its claim
Eligible(context, cpu_id) ==
    /\ ~context.running
    /\ ~context.ptrace_stop
    /\ context.status = "Runnable"
    /\ \/ context.cpu_id = cpu_id
       \/ /\ context.cpu_id = NoCpu
          /\ context.sched_affinity \in {NoCpu, cpu_id}

PassedInit == passed = [k \in Cpus |-> [c \in CtxIds |-> {}]]

\* the scan of CPU k chooses context c in this step
Chooses(k, c) ==
    spc[k] \in {"scan", "update"} /\ spc'[k] = "commit" /\ sw'[k][2] = c

\* a choice of c starts again from the contexts eligible after it; every
\* step drops the contexts that are not eligible after it
Observe ==
    passed' = [k \in Cpus |-> [c \in CtxIds |->
                 IF Chooses(k, c)
                 THEN {d \in CtxIds \ {c} : Eligible(contexts'[d], k)}
                 ELSE {d \in passed[k][c] : Eligible(contexts'[d], k)}]]

vars == <<pipeVars, irqVars, switchVars, gateVars, passed>>

\* what each part leaves alone
notPipe == <<irqVars, switchVars, gateVars, passed>>
notIrq == <<pipeVars, switchVars, gateVars, passed>>
notSwitch == <<pipeVars, irqVars, gateVars, passed>>
notGate == <<pipeVars, irqVars, switchVars, passed>>
\* what the scheduler leaves alone while its choices are recorded
notSched == <<pipeVars, irqVars, gateVars>>

\* the steps of each part, with the rest of the kernel left alone
PipeNext ==
    \/ \E flags \in FlagSets : pipe(flags) /\ UNCHANGED notPipe
    \/ \E p \in Procs, id \in Ids, len \in 0..MaxBuf :
          PipeScheme_kread(p, id, len) /\ UNCHANGED notPipe
    \/ \E p \in Procs : kread_loop(p) /\ UNCHANGED notPipe
    \/ \E p \in Procs : kread_block(p) /\ UNCHANGED notPipe
    \/ \E p \in Procs, id \in Ids, n \in 0..MaxBuf :
          PipeScheme_kwrite(p, id, Buf(n)) /\ UNCHANGED notPipe
    \/ \E p \in Procs : kwrite_loop(p) /\ UNCHANGED notPipe
    \/ \E p \in Procs : kwrite_block(p) /\ UNCHANGED notPipe
    \/ \E p \in Procs : wait_interrupted(p) /\ UNCHANGED notPipe
    \/ \E p \in Procs, id \in Ids :
          PipeScheme_close(p, id) /\ UNCHANGED notPipe
    \/ \E p \in Procs : close_store(p) /\ UNCHANGED notPipe
    \/ \E p \in Procs : close_finish(p) /\ UNCHANGED notPipe

\* the reads and the writes of a pipe whose sides have their flags set by
\* fcntl
PipeFlagNext ==
    \/ \E flags \in FlagSets : pipe(flags) /\ UNCHANGED notPipe
    \/ \E p \in Procs, id \in Ids, len \in 0..MaxBuf :
          PipeScheme_kread(p, id, len) /\ UNCHANGED notPipe
    \/ \E p \in Procs : kread_loop(p) /\ UNCHANGED notPipe
    \/ \E p \in Procs : kread_block(p) /\ UNCHANGED notPipe
    \/ \E p \in Procs, id \in Ids, n \in 0..MaxBuf :
          PipeScheme_kwrite(p, id, Buf(n)) /\ UNCHANGED notPipe
    \/ \E p \in Procs : kwrite_loop(p) /\ UNCHANGED notPipe
    \/ \E p \in Procs : kwrite_block(p) /\ UNCHANGED notPipe
    \/ \E p \in Procs : wait_interrupted(p) /\ UNCHANGED notPipe
    \/ \E p \in Procs, id \in Ids, cmd \in {"F_GETFL", "F_SETFL", "F_DUPFD"},
          arg \in FcntlArgs :
          PipeScheme_fcntl(p, id, cmd, arg) /\ UNCHANGED notPipe

\* every call of the pipe scheme on a pipe created with no flags, the reads
\* and writes with buffers of one byte and fcntl with the commands that
\* leave the flags as they are
PipeCtlNext ==
    \/ pipe({}) /\ UNCHANGED notPipe
    \/ \E p \in Procs, id \in Ids :
          PipeScheme_kread(p, id, 1) /\ UNCHANGED notPipe
    \/ \E p \in Procs : kread_loop(p) /\ UNCHANGED notPipe
    \/ \E p \in Procs : kread_block(p) /\ UNCHANGED notPipe
    \/ \E p \in Procs, id \in Ids :
          PipeScheme_kwrite(p, id, Buf(1)) /\ UNCHANGED notPipe
    \/ \E p \in Procs : kwrite_loop(p) /\ UNCHANGED notPipe
    \/ \E p \in Procs : kwrite_block(p) /\ UNCHANGED notPipe
    \/ \E p \in Procs : wait_interrupted(p) /\ UNCHANGED notPipe
    \/ \E p \in Procs, id \in Ids :
          PipeScheme_close(p, id) /\ UNCHANGED notPipe
    \/ \E p \in Procs : close_store(p) /\ UNCHANGED notPipe
    \/ \E p \in Procs : close_finish(p) /\ UNCHANGED notPipe
    \/ \E p \in Procs, id \in Ids, cmd \in {"F_GETFL", "F_DUPFD"} :
          PipeScheme_fcntl(p, id, cmd, {}) /\ UNCHANGED notPipe
    \/ \E p \in Procs, id \in Ids, flags \in {{"EVENT_READ"}, {"EVENT_WRITE"}} :
          PipeScheme_fevent(p, id, flags) /\ UNCHANGED notPipe
    \/ \E p \in Procs, id \in Ids, user_buf \in DupBufs :
          PipeScheme_kdup(p, id, user_buf) /\ UNCHANGED notPipe

IrqNext ==
    \/ \E irq \in TrigIrqs : irq_trigger(irq) /\ UNCHANGED notIrq
    \/ irq_trigger_fanout /\ UNCHANGED notIrq
    \/ \E p \in IrqProcs, path \in Paths, flags \in OpenFlags :
          IrqScheme_open(p, path, flags, 0) /\ UNCHANGED notIrq
    \/ \E p \in IrqProcs, path \in Paths :
          IrqScheme_open(p, path, {O_CREAT}, 1000) /\ UNCHANGED notIrq
    \/ \E p \in IrqProcs : open_set(p) /\ UNCHANGED notIrq
    \/ \E p \in IrqProcs, fd \in Fds :
          IrqScheme_close(p, fd) /\ UNCHANGED notIrq

\* the handles the readers and writers of an interrupt work on: the legacy
\* irq that fires, and the bsp
RwPaths ==
    {[kind |-> "irq", cpu |-> 0, irq |-> n] : n \in TrigIrqs}
    \cup {[kind |-> "bsp", cpu |-> 0, irq |-> 0]}

\* irq_trigger with the reads and the writes of the handles
IrqRwNext ==
    \/ \E irq \in TrigIrqs : irq_trigger(irq) /\ UNCHANGED notIrq
    \/ irq_trigger_fanout /\ UNCHANGED notIrq
    \/ \E p \in IrqProcs, path \in RwPaths :
          IrqScheme_open(p, path, {}, 0) /\ UNCHANGED notIrq
    \/ \E p \in IrqProcs, fd \in Fds, len \in {0, SIZE_OF_USIZE} :
          IrqScheme_kread(p, fd, len) /\ UNCHANGED notIrq
    \/ \E p \in IrqProcs : kread_ack(p) /\ UNCHANGED notIrq
    \/ \E p \in IrqProcs, fd \in Fds, word \in 0..MaxCount :
          IrqScheme_kwrite(p, fd, SIZE_OF_USIZE, word)
             /\ UNCHANGED notIrq
    \/ \E p \in IrqProcs, fd \in Fds :
          IrqScheme_kwrite(p, fd, 0, 0) /\ UNCHANGED notIrq
    \/ \E p \in IrqProcs : kwrite_store(p) /\ UNCHANGED notIrq

\* the scheduler on every CPU, with contexts that block until they are
\* unblocked, are sent signals and are stopped; sleeps with a deadline are
\* in ScanNext
SwitchNext ==
    \/ \E k \in Cpus : switch(k) /\ UNCHANGED notSwitch
    \/ \E k \in Cpus : switch_acquire(k) /\ UNCHANGED notSwitch
    \/ \E k \in Cpus : switch_scan(k) /\ UNCHANGED notSwitch
    \/ \E k \in Cpus : switch_commit(k) /\ UNCHANGED notSwitch
    \/ \E k \in Cpus : switch_finish_hook(k) /\ UNCHANGED notSwitch
    \/ \E k \in Cpus : context_block(k, NoWake) /\ UNCHANGED notSwitch
    \/ \E k \in Cpus : signal_return(k) /\ UNCHANGED notSwitch
    \/ \E c \in CtxIds : context_unblock(c) /\ UNCHANGED notSwitch
    \/ \E c \in CtxIds : context_signal(c, 1, MaxSignals) /\ UNCHANGED notSwitch
    \/ \E c \in CtxIds : ptrace_stop(c) /\ UNCHANGED notSwitch

\* the scheduler while the bootstrap processor runs alone
ScanNext ==
    \/ \E k \in UpCpus : switch(k) /\ UNCHANGED notSwitch
    \/ \E k \in UpCpus : switch_acquire(k) /\ UNCHANGED notSwitch
    \/ \E k \in UpCpus : switch_scan(k) /\ UNCHANGED notSwitch
    \/ \E k \in UpCpus : switch_commit(k) /\ UNCHANGED notSwitch
    \/ \E k \in UpCpus : switch_finish_hook(k) /\ UNCHANGED notSwitch
    \/ \E k \in UpCpus, wake \in {NoWake, MaxTime} :
          context_block(k, wake) /\ UNCHANGED notSwitch
    \/ \E k \in UpCpus : signal_return(k) /\ UNCHANGED notSwitch
    \/ \E c \in CtxIds : context_unblock(c) /\ UNCHANGED notSwitch
    \/ \E c \in CtxIds : context_signal(c, 1, MaxSignals) /\ UNCHANGED notSwitch
    \/ \E c \in CtxIds : ptrace_stop(c) /\ UNCHANGED notSwitch
    \/ tick /\ UNCHANGED notSwitch

\* the scheduler with the locks of the scan taken one by one
LockNext ==
    \/ \E k \in Cpus : switch(k) /\ UNCHANGED notSwitch
    \/ \E k \in Cpus : switch_acquire(k) /\ UNCHANGED notSwitch
    \/ \E k \in Cpus : switch_lock_prev(k) /\ UNCHANGED notSwitch
    \/ \E k \in Cpus : switch_lock_next(k) /\ UNCHANGED notSwitch
    \/ \E k \in Cpus : switch_update_runnable(k) /\ UNCHANGED notSwitch
    \/ \E k \in Cpus : switch_none(k) /\ UNCHANGED notSwitch
    \/ \E k \in Cpus : switch_commit(k) /\ UNCHANGED notSwitch
    \/ \E k \in Cpus : switch_finish_hook(k) /\ UNCHANGED notSwitch
    \/ \E k \in Cpus : context_block(k, NoWake) /\ UNCHANGED notSwitch
    \/ \E c \in CtxIds : context_unblock(c) /\ UNCHANGED notSwitch
    \/ \E c \in CtxIds : context_signal(c, 1, MaxSignals) /\ UNCHANGED notSwitch

\* the scheduler of the bootstrap processor with the signals of a run
\* numbered in the order they are sent
SignalNext ==
    \/ \E k \in UpCpus : switch(k) /\ UNCHANGED notSwitch
    \/ \E k \in UpCpus : switch_acquire(k) /\ UNCHANGED notSwitch
    \/ \E k \in UpCpus : switch_scan(k) /\ UNCHANGED notSwitch
    \/ \E k \in UpCpus : switch_commit(k) /\ UNCHANGED notSwitch
    \/ \E k \in UpCpus : switch_finish_hook(k) /\ UNCHANGED notSwitch
    \/ \E k \in UpCpus : signal_return(k) /\ UNCHANGED notSwitch
    \/ \E c \in CtxIds :
          context_signal(c, sent + 1, MaxQueued) /\ UNCHANGED notSwitch

\* the scheduler of the bootstrap processor with contexts that execute
\* between the switches
SavedNext ==
    \/ \E k \in UpCpus : switch(k) /\ UNCHANGED notSwitch
    \/ \E k \in UpCpus : switch_acquire(k) /\ UNCHANGED notSwitch
    \/ \E k \in UpCpus : switch_scan(k) /\ UNCHANGED notSwitch
    \/ \E k \in UpCpus : switch_commit(k) /\ UNCHANGED notSwitch
    \/ \E k \in UpCpus : switch_finish_hook(k) /\ UNCHANGED notSwitch
    \/ \E k \in UpCpus : signal_return(k) /\ UNCHANGED notSwitch
    \/ \E c \in CtxIds :
          context_signal(c, 1, MaxSignals) /\ UNCHANGED notSwitch
    \/ \E k \in UpCpus, arch \in 0..MaxArch, kfx \in 0..MaxArch,
          data \in 0..MaxArch, singlestep \in BOOLEAN :
          context_run(k, arch, kfx, StackContents(data, singlestep))
          /\ UNCHANGED notSwitch

\* the scheduler of the bootstrap processor, which calls switch() from
\* whatever context it is in (lib.rs:216-226), the scan lock by lock, with
\* contexts that block, are woken and are stopped, and with its choices
\* recorded
RoundNext ==
    \/ \E k \in UpCpus : switch(k) /\ Observe /\ UNCHANGED notSched
    \/ \E k \in UpCpus : switch_acquire(k) /\ Observe /\ UNCHANGED notSched
    \/ \E k \in UpCpus : switch_lock_prev(k) /\ Observe /\ UNCHANGED notSched
    \/ \E k \in UpCpus : switch_lock_next(k) /\ Observe /\ UNCHANGED notSched
    \/ \E k \in UpCpus :
          switch_update_runnable(k) /\ Observe /\ UNCHANGED notSched
    \/ \E k \in UpCpus : switch_none(k) /\ Observe /\ UNCHANGED notSched
    \/ \E k \in UpCpus : switch_commit(k) /\ Observe /\ UNCHANGED notSched
    \/ \E k \in UpCpus : switch_finish_hook(k) /\ Observe /\ UNCHANGED notSched
    \/ \E k \in UpCpus :
          context_block(k, NoWake) /\ Observe /\ UNCHANGED notSched
    \/ \E c \in CtxIds : context_unblock(c) /\ Observe /\ UNCHANGED notSched
    \/ \E c \in CtxIds : ptrace_stop(c) /\ Observe /\ UNCHANGED notSched

\* the scheduler with calls of switch_finish_hook from outside switch()
HookNext ==
    \/ \E k \in Cpus : switch(k) /\ UNCHANGED notSwitch
    \/ \E k \in Cpus : switch_acquire(k) /\ UNCHANGED notSwitch
    \/ \E k \in Cpus : switch_scan(k) /\ UNCHANGED notSwitch
    \/ \E k \in Cpus : switch_commit(k) /\ UNCHANGED notSwitch
    \/ \E k \in Cpus : switch_finish_hook(k) /\ UNCHANGED notSwitch
    \/ \E k \in Cpus : hook_call(k) /\ UNCHANGED notSwitch
    \/ \E k \in Cpus : context_block(k, NoWake) /\ UNCHANGED notSwitch
    \/ \E c \in CtxIds : context_unblock(c) /\ UNCHANGED notSwitch
    \/ \E c \in CtxIds : context_signal(c, 1, MaxSignals) /\ UNCHANGED notSwitch

GateNext ==
    \/ \E rip \in Rips, rflags \in 0..MaxRflags, rax \in 0..MaxNr :
          syscall_instruction(rip, rflags, rax) /\ UNCHANGED notGate
    \/ \E rip \in Rips, callback \in {None, Some(0)},
          next \in {None} \cup {Some(f) : f \in PtraceFlagSets},
          result \in 0..MaxRet :
          inner_syscall_instruction(rip, callback, next, result)
          /\ UNCHANGED notGate
    \/ test_rcx /\ UNCHANGED notGate
    \/ sysretq /\ UNCHANGED notGate
    \/ iretq /\ UNCHANGED notGate

\* the scheduler, where a specification leaves it alone, starts with no
\* affinities
SwitchIdle == SwitchInitWith([c \in CtxIds |-> NoCpu])

\* the initial state of the pipe and irq specifications
Init == PipeInit /\ IrqInit /\ SwitchIdle /\ GateInit /\ PassedInit
\* the initial states of the scheduler specification
InitSwitch == PipeInit /\ IrqInit /\ SwitchInit /\ GateInit /\ PassedInit
\* the bootstrap processor alone, with contexts that have no affinity
InitRound ==
    /\ PipeInit /\ IrqInit /\ GateInit /\ PassedInit
    /\ ScanInitWith([c \in CtxIds |-> NoCpu])
\* the initial states of the scheduler with one processor up
InitScan == PipeInit /\ IrqInit /\ ScanInit /\ GateInit /\ PassedInit

PipeSpec == Init /\ [][PipeNext]_vars
PipeFlagSpec == Init /\ [][PipeFlagNext]_vars
IrqSpec == Init /\ [][IrqNext]_vars
SwitchSpec == InitSwitch /\ [][SwitchNext]_vars
ScanSpec == InitScan /\ [][ScanNext]_vars
LockSpec == InitSwitch /\ [][LockNext]_vars
HookSpec == InitSwitch /\ [][HookNext]_vars
SignalSpec == InitScan /\ [][SignalNext]_vars
SavedSpec == InitScan /\ [][SavedNext]_vars

\* a CPU inside switch() goes on executing; a CPU that spins for a lock
\* gets it if the lock is free again and again
LockFairness ==
    \A k \in Cpus :
        /\ SF_vars(switch_acquire(k) /\ UNCHANGED notSwitch)
        /\ SF_vars(switch_lock_prev(k) /\ UNCHANGED notSwitch)
        /\ SF_vars(switch_lock_next(k) /\ UNCHANGED notSwitch)
        /\ WF_vars(switch_update_runnable(k) /\ UNCHANGED notSwitch)
        /\ WF_vars(switch_none(k) /\ UNCHANGED notSwitch)
        /\ WF_vars(switch_commit(k) /\ UNCHANGED notSwitch)
        /\ WF_vars(switch_finish_hook(k) /\ UNCHANGED notSwitch)

LockFairSpec == InitSwitch /\ [][LockNext]_vars /\ LockFairness

\* the bootstrap processor keeps calling switch(), and a CPU inside switch()
\* goes on executing; it is alone, so the global lock is free when it spins
RoundFairness ==
    \A k \in UpCpus :
        /\ WF_vars(switch(k) /\ Observe /\ UNCHANGED notSched)
        /\ WF_vars(switch_acquire(k) /\ Observe /\ UNCHANGED notSched)
        /\ WF_vars(switch_lock_prev(k) /\ Observe /\ UNCHANGED notSched)
        /\ WF_vars(switch_lock_next(k) /\ Observe /\ UNCHANGED notSched)
        /\ WF_vars(switch_update_runnable(k) /\ Observe /\ UNCHANGED notSched)
        /\ WF_vars(switch_none(k) /\ Observe /\ UNCHANGED notSched)
        /\ WF_vars(switch_commit(k) /\ Observe /\ UNCHANGED notSched)
        /\ WF_vars(switch_finish_hook(k) /\ Observe /\ UNCHANGED notSched)

RoundFairSpec == InitRound /\ [][RoundNext]_vars /\ RoundFairness
GateSpec == Init /\ [][GateNext]_vars
IrqRwSpec == Init /\ [][IrqRwNext]_vars

\* irq_trigger with the reads, the writes and the closes of the handles
IrqCloseNext ==
    \/ \E irq \in TrigIrqs : irq_trigger(irq) /\ UNCHANGED notIrq
    \/ irq_trigger_fanout /\ UNCHANGED notIrq
    \/ \E p \in IrqProcs, path \in RwPaths :
          IrqScheme_open(p, path, {}, 0) /\ UNCHANGED notIrq
    \/ \E p \in IrqProcs, fd \in Fds :
          IrqScheme_kread(p, fd, SIZE_OF_USIZE) /\ UNCHANGED notIrq
    \/ \E p \in IrqProcs : kread_ack(p) /\ UNCHANGED notIrq
    \/ \E p \in IrqProcs, fd \in Fds, word \in 0..MaxCount :
          IrqScheme_kwrite(p, fd, SIZE_OF_USIZE, word)
             /\ UNCHANGED notIrq
    \/ \E p \in IrqProcs : kwrite_store(p) /\ UNCHANGED notIrq
    \/ \E p \in IrqProcs, fd \in Fds :
          IrqScheme_close(p, fd) /\ UNCHANGED notIrq

IrqCloseSpec == Init /\ [][IrqCloseNext]_vars
PipeCtlSpec == Init /\ [][PipeCtlNext]_vars

\* the caller that reads and the caller that writes
Readers == {1}
Writers == Procs \ Readers

\* one kread at a time against one kwrite at a time on the pipes of pipe()
PipeFairNext ==
    \/ \E flags \in FlagSets : pipe(flags) /\ UNCHANGED notPipe
    \/ \E p \in Readers, id \in Ids, len \in 0..MaxBuf :
          PipeScheme_kread(p, id, len) /\ UNCHANGED notPipe
    \/ \E p \in Procs : kread_loop(p) /\ UNCHANGED notPipe
    \/ \E p \in Procs : kread_block(p) /\ UNCHANGED notPipe
    \/ \E p \in Writers, id \in Ids, n \in 0..MaxBuf :
          PipeScheme_kwrite(p, id, Buf(n)) /\ UNCHANGED notPipe
    \/ \E p \in Procs : kwrite_loop(p) /\ UNCHANGED notPipe
    \/ \E p \in Procs : kwrite_block(p) /\ UNCHANGED notPipe
    \/ \E p \in Procs : wait_interrupted(p) /\ UNCHANGED notPipe

\* a caller inside kread or kwrite goes on executing; a caller that spins for
\* the queue mutex gets it if the mutex is free again and again
PipeFairness ==
    \A p \in Procs :
        /\ SF_vars(kread_loop(p) /\ UNCHANGED notPipe)
        /\ WF_vars(kread_block(p) /\ UNCHANGED notPipe)
        /\ SF_vars(kwrite_loop(p) /\ UNCHANGED notPipe)
        /\ WF_vars(kwrite_block(p) /\ UNCHANGED notPipe)

PipeFairSpec == Init /\ [][PipeFairNext]_vars /\ PipeFairness

(***************************************************************************)
(* Properties of the scheduler switch.                                     *)
(***************************************************************************)
\* C1: no context is current on two CPUs at once: for every context at most
\* one CPU has CONTEXT_ID equal to its id
C1_OneCpuPerContext ==
    \A c \in CtxIds : Cardinality({k \in Cpus : CONTEXT_ID[k] = c}) <= 1

\* one CPU has switched to another context and runs it, while another CPU
\* holds the global lock and is about to scan the table
C1_ScanAfterSwitch ==
    \E k, j \in Cpus :
        /\ k # j
        /\ CONTEXT_ID[k] # k + 1
        /\ contexts[CONTEXT_ID[k]].running
        /\ spc[k] = "run"
        /\ spc[j] = "scan"

\* the running flags of the contexts
Running(ctxs) == [c \in CtxIds |-> ctxs[c].running]

\* C20: switch() returns true if and only if it has switched: a call that
\* returns true has taken the running flag of the previous context of its
\* CPU from true to false and that of the chosen next context from false to
\* true, no other, and has set the CONTEXT_ID of its CPU to the next
\* context; a call that returns false has changed no running flag and no
\* CONTEXT_ID
C20_TrueIffSwitched ==
    [][\A k \in Cpus :
          /\ (spc[k] = "commit" /\ spc'[k] # "commit") =>
                LET prev == CONTEXT_ID[k]
                    next == CONTEXT_ID'[k]
                IN /\ next # prev
                   /\ contexts[prev].running /\ ~contexts[next].running
                   /\ Running(contexts') =
                         [Running(contexts) EXCEPT ![prev] = FALSE,
                                                   ![next] = TRUE]
                   /\ CONTEXT_ID' = [CONTEXT_ID EXCEPT ![k] = next]
                   /\ SWITCH_RESULT'[k] = <<prev, next>>
                   /\ spc'[k] = "switch_to"
          /\ (spc[k] # "commit" /\ spc'[k] # spc[k]) =>
                /\ Running(contexts') = Running(contexts)
                /\ CONTEXT_ID' = CONTEXT_ID
          /\ (sret'[k] = "true" /\ sret[k] # "true") =>
                /\ spc[k] = "switch_to"
                /\ CONTEXT_ID[k] = SWITCH_RESULT[k][2]
                /\ contexts[SWITCH_RESULT[k][2]].running
                /\ ~contexts[SWITCH_RESULT[k][1]].running
          /\ (sret'[k] = "false" /\ sret[k] # "false") => spc[k] = "scan"
          /\ (spc[k] = "switch_to" /\ spc'[k] # "switch_to") =>
                sret'[k] = "true"
          /\ (spc[k] = "scan" /\ spc'[k] = "run") => sret'[k] = "false"]_vars

\* one CPU has returned true from switch() and runs another context than
\* the one it began with, and the other CPU has returned false
C20_OneTrueOneFalse ==
    \E k, j \in Cpus :
        /\ sret[k] = "true"
        /\ sret[j] = "false"
        /\ CONTEXT_ID[k] # k + 1
        /\ contexts[CONTEXT_ID[k]].running

\* C21: in every state a context with running set has its cpu_id set
C21_RunningHasCpu ==
    \A c \in CtxIds : contexts[c].running => contexts[c].cpu_id # NoCpu

\* a context that began unowned, with an affinity, was claimed by the CPU of
\* its affinity and runs on it, and the context it replaced still has the
\* cpu_id of that CPU
C21_ClaimedAndRunning ==
    \E c \in CtxIds, k \in Cpus :
        /\ c > NCpus
        /\ contexts[c].running
        /\ contexts[c].sched_affinity = k
        /\ contexts[c].cpu_id = k
        /\ CONTEXT_ID[k] = c
        /\ ~contexts[k + 1].running
        /\ contexts[k + 1].cpu_id = k

\* switch.rs:20-39: the cases in which update_runnable returns before it
\* touches the context: running, ptrace-stopped, owned by another CPU, or
\* unowned with an affinity for another CPU
Refused(context, cpu_id) ==
    \/ context.running
    \/ context.ptrace_stop
    \/ context.cpu_id \notin {NoCpu, cpu_id}
    \/ context.cpu_id = NoCpu /\ context.sched_affinity \notin {NoCpu, cpu_id}

\* C30: update_runnable returns false for a context that is running,
\* ptrace-stopped, owned by another CPU or not claimable because of its
\* affinity, and leaves it as it was; a scan of switch() leaves every such
\* context unchanged and never chooses it
C30_RefusedUnchanged ==
    [][ /\ \A c \in CtxIds, k \in Cpus :
              Refused(contexts[c], k)
              => update_runnable(contexts[c], k, now) = <<contexts[c], FALSE>>
        /\ \A k \in Cpus :
              spc[k] = "scan" /\ spc'[k] # "scan"
              => \A c \in CtxIds \ {CONTEXT_ID[k]} :
                    Refused(contexts[c], k)
                    => /\ contexts'[c] = contexts[c]
                       /\ spc'[k] = "commit" => sw'[k][2] # c ]_vars

\* a scan found nothing because every other context was refused: one runs
\* on the other CPU, one is unowned with an affinity for the other CPU and
\* has a signal pending, and it is still unowned with the signal pending
C30_AllRefused ==
    \E k \in Cpus :
        /\ spc[k] = "run"
        /\ sret[k] = "false"
        /\ \A c \in CtxIds \ {CONTEXT_ID[k]} : Refused(contexts[c], k)
        /\ \E c \in CtxIds :
              /\ contexts[c].cpu_id = NoCpu
              /\ contexts[c].sched_affinity \notin {NoCpu, k}
              /\ contexts[c].pending # <<>>
        /\ \E c \in CtxIds : contexts[c].running /\ contexts[c].cpu_id # k

\* how far after prev the id c comes in the order of the scan
ScanDist(prev, c) == (c - prev + NCtx) % NCtx

\* C29: the scan of switch() goes through the other contexts by increasing
\* id from just after the current one and wraps around; the context chosen
\* is the first in that order for which update_runnable holds, every context
\* before it was updated and refused, the current context and the contexts
\* after the chosen one are left as they were; a scan that returns with no
\* such context has updated and refused every other context
C29_FirstInScanOrder ==
    [][ \A k \in Cpus :
          spc[k] = "scan" /\ spc'[k] # "scan"
          => LET prev == CONTEXT_ID[k]
                 next == sw'[k][2]
                 up(c) == update_runnable(contexts[c], k, now)
             IN  /\ contexts'[prev] = contexts[prev]
                 /\ spc'[k] = "commit"
                    => /\ next \in CtxIds \ {prev}
                       /\ sw'[k][1] = prev
                       /\ up(next)[2]
                       /\ contexts'[next] = up(next)[1]
                       /\ ~contexts'[next].running
                       /\ ~contexts'[next].ptrace_stop
                       /\ contexts'[next].cpu_id = k
                       /\ contexts'[next].status = "Runnable"
                       /\ \A c \in CtxIds \ {prev} :
                             /\ ScanDist(prev, c) < ScanDist(prev, next)
                                => ~up(c)[2] /\ contexts'[c] = up(c)[1]
                             /\ ScanDist(prev, c) > ScanDist(prev, next)
                                => contexts'[c] = contexts[c]
                 /\ spc'[k] = "run"
                    => \A c \in CtxIds \ {prev} :
                          ~up(c)[2] /\ contexts'[c] = up(c)[1] ]_vars

\* a scan chose the context just after the current one although a context
\* with a lower id, which comes later in the order, would have been accepted
\* too
C29_ChosenBeforeLowerId ==
    \E k \in Cpus, c \in CtxIds :
        /\ spc[k] = "commit"
        /\ c \notin {sw[k][1], sw[k][2]}
        /\ c < sw[k][2]
        /\ ScanDist(sw[k][1], c) > ScanDist(sw[k][1], sw[k][2])
        /\ update_runnable(contexts[c], k, now)[2]

InSwitch(k) == spc[k] \notin {"run", "acquire"}

\* C26: at most one CPU at a time is between acquiring CONTEXT_SWITCH_LOCK
\* and releasing it, and a step of switch() on a CPU that changes a context
\* is taken while the lock is held by that CPU and the write lock of the
\* context is held by that CPU
C26_SwitchUnderBothLocks ==
    /\ [](/\ Cardinality({k \in Cpus : InSwitch(k)}) <= 1
          /\ \A k \in Cpus : InSwitch(k) => CONTEXT_SWITCH_LOCK)
    /\ [][ \A k \in Cpus, c \in CtxIds :
             spc'[k] # spc[k] /\ contexts'[c] # contexts[c]
             => /\ InSwitch(k)
                /\ CONTEXT_SWITCH_LOCK
                /\ ctx_lock[c] = k ]_vars

\* a CPU holds the global lock and the write locks of its previous context
\* and of a candidate that update_runnable is about to change, while the
\* other CPU spins for the global lock
C26_UpdateWhileOtherSpins ==
    \E k, j \in Cpus :
        /\ spc[k] = "update"
        /\ spc[j] = "acquire"
        /\ CONTEXT_SWITCH_LOCK
        /\ ctx_lock[sw[k][1]] = k
        /\ ctx_lock[sw[k][2]] = k
        /\ update_runnable(contexts[sw[k][2]], k, now)[1] # contexts[sw[k][2]]

C28_HookConsumesResult ==
    [][ /\ \A k \in Cpus :
             LET hook == spc[k] \in {"switch_to", "hook"} /\ spc'[k] # spc[k]
             IN  /\ SWITCH_RESULT'[k] # SWITCH_RESULT[k]
                    => IF SWITCH_RESULT[k] = <<>>
                       THEN /\ spc[k] = "commit"
                            /\ SWITCH_RESULT'[k] = <<sw[k][1], sw[k][2]>>
                       ELSE hook /\ SWITCH_RESULT'[k] = <<>>
                 /\ hook /\ SWITCH_RESULT[k] # <<>>
                    => /\ SWITCH_RESULT'[k] = <<>>
                       /\ ctx_lock[SWITCH_RESULT[k][1]] = k
                       /\ ctx_lock[SWITCH_RESULT[k][2]] = k
                       /\ \A c \in CtxIds : ctx_lock'[c] # k
                       /\ ~CONTEXT_SWITCH_LOCK'
                       /\ spc'[k] = "run"
                 /\ hook /\ SWITCH_RESULT[k] = <<>>
                    => /\ spc'[k] = "abort"
                       /\ ctx_lock' = ctx_lock
                       /\ CONTEXT_SWITCH_LOCK' = CONTEXT_SWITCH_LOCK
                       /\ SWITCH_RESULT' = SWITCH_RESULT
                 /\ spc[k] = "abort" => spc'[k] = "abort"
        /\ \A c \in CtxIds :
             ctx_lock[c] # NoCpu /\ ctx_lock'[c] # ctx_lock[c]
             => LET k == ctx_lock[c]
                IN  /\ spc[k] = "switch_to"
                    /\ spc'[k] = "run"
                    /\ c \in {SWITCH_RESULT[k][1], SWITCH_RESULT[k][2]} ]_vars

\* a CPU has aborted in a call of the hook with no SwitchResult, while the
\* other CPU is on its way through switch_to with its SwitchResult stored
\* and both its context locks and the global lock still held
C28_AbortBesideSwitch ==
    \E k, j \in Cpus :
        /\ spc[k] = "abort"
        /\ SWITCH_RESULT[k] = <<>>
        /\ spc[j] = "switch_to"
        /\ SWITCH_RESULT[j] # <<>>
        /\ ctx_lock[SWITCH_RESULT[j][1]] = j
        /\ ctx_lock[SWITCH_RESULT[j][2]] = j
        /\ CONTEXT_SWITCH_LOCK

\* C31: the owner of a context is set once: a cpu_id that is set is never
\* changed by any step; a scan that chooses a context is the scan of the CPU
\* that owns it afterwards, and it owned it before or the context was
\* unowned; a context that goes from unowned to owned is claimed by the CPU
\* that scans, and if it has an affinity that CPU is the one of its affinity
C31_OwnershipSticky ==
    [][ /\ \A c \in CtxIds :
              contexts[c].cpu_id # NoCpu
              => contexts'[c].cpu_id = contexts[c].cpu_id
        /\ \A k \in Cpus :
              spc[k] = "scan" /\ spc'[k] = "commit"
              => /\ contexts[sw'[k][2]].cpu_id \in {NoCpu, k}
                 /\ contexts'[sw'[k][2]].cpu_id = k
        /\ \A c \in CtxIds :
              contexts[c].cpu_id = NoCpu /\ contexts'[c].cpu_id # NoCpu
              => \E k \in Cpus :
                    /\ spc[k] = "scan" /\ spc'[k] # "scan"
                    /\ contexts'[c].cpu_id = k
                    /\ contexts[c].sched_affinity \in {NoCpu, k} ]_vars

\* a context with an affinity was claimed by the CPU of its affinity and has
\* been switched away from: it is runnable, not running, not stopped, and
\* the scan of the other CPU has passed it by and found nothing
C31_PassedByOtherCpu ==
    \E c \in CtxIds, k, j \in Cpus :
        /\ k # j
        /\ c > NCpus
        /\ contexts[c].sched_affinity = k
        /\ contexts[c].cpu_id = k
        /\ ~contexts[c].running
        /\ ~contexts[c].ptrace_stop
        /\ contexts[c].status = "Runnable"
        /\ spc[j] = "run"
        /\ sret[j] = "false"
        /\ spc[k] = "run"
        /\ sret[k] = "true"

\* C32: the restore from ksig is done by another context: every step that
\* consumes the ksig_restore of a context is the scan of a CPU whose current
\* context is another one and is running, the restored context is not
\* running, it is the current context of no CPU and no CPU is on its way out
\* of it, and the step clears its ksig
C32_RestoreByAnother ==
    [][ \A c \in CtxIds :
          contexts[c].ksig_restore /\ ~contexts'[c].ksig_restore
          => /\ ~contexts[c].running
             /\ \A j \in Cpus :
                   /\ CONTEXT_ID[j] # c
                   /\ spc[j] \in {"commit", "switch_to"} => sw[j][1] # c
             /\ \E k \in Cpus :
                   /\ spc[k] = "scan" /\ spc'[k] # "scan"
                   /\ CONTEXT_ID[k] # c
                   /\ contexts[CONTEXT_ID[k]].running
                   /\ contexts[c].cpu_id = k
             /\ contexts[c].ksig # NoSig
             /\ contexts'[c].ksig = NoSig ]_vars

\* the signal of the run was sent, injected and handled, the saved state of
\* its context was restored by the scan of another context, and the context
\* runs again
C32_RestoredAndRunning ==
    \E c \in CtxIds :
        /\ sent = MaxSignals
        /\ \A d \in CtxIds :
              /\ contexts[d].pending = <<>>
              /\ contexts[d].ksig = NoSig
              /\ ~contexts[d].ksig_restore
        /\ c > NCpus
        /\ contexts[c].running
        /\ contexts[c].status = "Runnable"
        /\ \E k \in Cpus : CONTEXT_ID[k] = c /\ spc[k] = "run"

\* ksig_restore implies ksig.is_some()
KsigInv(context) == context.ksig_restore => context.ksig # NoSig

\* the context with every choice of ksig, ksig_restore and pending
KsigVariants(context) ==
    {[context EXCEPT !.ksig = ks, !.ksig_restore = kr, !.pending = pd,
                     !.ksig_saved = IF ks = NoSig THEN NoSaved
                                    ELSE <<context.arch, context.kfx,
                                           context.kstack>>] :
        ks \in {NoSig, 1}, kr \in BOOLEAN, pd \in {<<>>, <<1>>}}

\* C33: ksig_restore implies ksig.is_some() in every state, and switch() and
\* update_runnable keep it: on every context a scan meets, taken with every
\* ksig, ksig_restore and pending that satisfy it, update_runnable does not
\* panic with "ksig not set with ksig_restore", its restore clears ksig and
\* ksig_restore together and leaves a context that satisfies it, and the
\* injection leaves a context with ksig set alone, never changes
\* ksig_restore and leaves a context that satisfies it; in every step ksig
\* is cleared exactly when ksig_restore is, ksig is set only by the commit
\* of a switch to the context, and no step of switch() sets ksig_restore
C33_KsigRestoreImpliesKsig ==
    [][ /\ \A c \in CtxIds : KsigInv(contexts[c]) /\ KsigInv(contexts'[c])
        /\ \A k \in Cpus : sret'[k] # "ksig not set with ksig_restore"
        /\ \A k \in Cpus :
              spc[k] = "scan" /\ spc'[k] # "scan"
              => \A c \in CtxIds :
                 \A x \in KsigVariants(contexts[c]) :
                    KsigInv(x)
                    => LET u == update_runnable(x, k, now)[1]
                           i == inject_signal(x)
                       IN /\ update_runnable_panic(x, k)
                                # "ksig not set with ksig_restore"
                          /\ update_runnable_panic(x, k) = NoPanic
                             => /\ KsigInv(u)
                                /\ (x.ksig_restore /\ ~u.ksig_restore)
                                      <=> (x.ksig # NoSig /\ u.ksig = NoSig)
                                /\ ~x.ksig_restore => ~u.ksig_restore
                                /\ u.ksig \in {x.ksig, NoSig}
                          /\ KsigInv(i)
                          /\ i.ksig_restore = x.ksig_restore
                          /\ x.ksig # NoSig => i = x
        /\ \A c \in CtxIds :
              /\ (contexts[c].ksig # NoSig /\ contexts'[c].ksig = NoSig)
                    <=> (contexts[c].ksig_restore /\ ~contexts'[c].ksig_restore)
              /\ (contexts[c].ksig = NoSig /\ contexts'[c].ksig # NoSig)
                    => /\ \E k \in Cpus :
                             /\ spc[k] = "commit" /\ spc'[k] = "switch_to"
                             /\ sw[k][2] = c
                       /\ ~contexts[c].ksig_restore
                       /\ ~contexts'[c].ksig_restore
              /\ (~contexts[c].ksig_restore /\ contexts'[c].ksig_restore)
                    => spc' = spc ]_vars

\* the scan of a CPU has restored a context from its ksig and has chosen
\* it: the signal of the run was injected and handled, no context has a
\* ksig or a ksig_restore left, and the restored context is about to run
C33_RestoredAndChosen ==
    \E c \in CtxIds, k \in Cpus :
        /\ sent = MaxSignals
        /\ \A d \in CtxIds :
              /\ contexts[d].pending = <<>>
              /\ contexts[d].ksig = NoSig
              /\ ~contexts[d].ksig_restore
        /\ spc[k] = "commit"
        /\ sw[k][2] = c
        /\ c > NCpus
        /\ ~contexts[c].running
        /\ \A j \in Cpus : spc[j] # "panic"

\* whether s is a proper suffix of t
ProperSuffix(s, t) ==
    Len(s) < Len(t) /\ s = SubSeq(t, Len(t) - Len(s) + 1, Len(t))

\* C34: a signal is taken from pending only by the commit of a switch to
\* the context, only when its ksig is None, and it is the oldest one, which
\* goes to ksig; a commit to a context with ksig set or nothing pending
\* leaves both alone; no other step shortens pending and none overwrites a
\* ksig that is set; with the signals numbered as they are sent, in every
\* state the signal in ksig is older than every pending one and pending is
\* in the order of arrival
C34_OldestSignalFirst ==
    [][ /\ \A c \in CtxIds :
              LET old == contexts[c]
                  new == contexts'[c]
              IN /\ new.pending # old.pending
                    => \/ /\ old.pending # <<>>
                          /\ new.pending = Tail(old.pending)
                          /\ old.ksig = NoSig
                          /\ new.ksig = Head(old.pending)
                          /\ \E k \in Cpus :
                                /\ spc[k] = "commit" /\ spc'[k] = "switch_to"
                                /\ sw[k][2] = c
                       \/ /\ Len(new.pending) = Len(old.pending) + 1
                          /\ SubSeq(new.pending, 1, Len(old.pending)) = old.pending
                          /\ new.ksig = old.ksig
                          /\ spc' = spc
                 /\ old.ksig # NoSig
                    => /\ new.ksig \in {old.ksig, NoSig}
                       /\ ~ProperSuffix(new.pending, old.pending)
                 /\ (old.ksig = NoSig /\ new.ksig # NoSig)
                    => /\ old.pending # <<>>
                       /\ new.pending = Tail(old.pending)
        /\ \A k \in Cpus :
              spc[k] = "commit" /\ spc'[k] = "switch_to"
              => LET old == contexts[sw[k][2]]
                     new == contexts'[sw[k][2]]
                 IN  IF old.ksig = NoSig /\ old.pending # <<>>
                     THEN /\ new.ksig = Head(old.pending)
                          /\ new.pending = Tail(old.pending)
                     ELSE /\ new.ksig = old.ksig
                          /\ new.pending = old.pending
        /\ \A c \in CtxIds :
              LET q == contexts'[c].pending IN
              /\ \A i \in 1..Len(q) :
                    /\ contexts'[c].ksig # NoSig => contexts'[c].ksig < q[i]
                    /\ \A j \in 1..Len(q) : i < j => q[i] < q[j] ]_vars

\* a context that is in its signal handler, with the first signal in ksig
\* and the second one pending, was switched away from and is switched to
\* again: the commit of the switch is about to run with ksig set
C34_SwitchToHandlerWithPending ==
    \E c \in CtxIds, k \in Cpus :
        /\ spc[k] = "commit"
        /\ sw[k][2] = c
        /\ contexts[c].ksig = 1
        /\ contexts[c].pending = <<2>>
        /\ ~contexts[c].ksig_restore

\* what a signal handler can have left in a context that has returned from
\* it: any registers, FPU state and stack contents, ksig_restore set, blocked
AfterHandler(context) ==
    {[context EXCEPT !.arch = a, !.kfx = f,
                     !.kstack = <<@[1], @[2], StackContents(d, ss)>>,
                     !.ksig_restore = TRUE, !.status = "Blocked"] :
        a \in 0..MaxArch, f \in 0..MaxArch, d \in 0..MaxArch, ss \in BOOLEAN}

\* C35: the injection saves arch, kfx and kstack as they are just before
\* it, the saved state is not changed while the handler runs, and the
\* restore puts it back: after the restore arch and kfx are the values from
\* before the injection, kstack is at the same place with the contents from
\* before the injection except for the single-step flag, which is the one
\* from before the restore, ksig is None, ksig_restore is false and the
\* context is runnable; and for every context of a scan that has a kernel
\* stack, injecting a signal, letting the handler leave anything in arch,
\* kfx and kstack, and restoring gives back the context from before the
\* injection in that sense
C35_SaveRestoreRoundTrip ==
    [][ /\ \A c \in CtxIds :
              LET old == contexts[c]
                  new == contexts'[c]
              IN /\ (old.ksig = NoSig /\ new.ksig # NoSig)
                    => /\ new.ksig_saved = <<old.arch, old.kfx, old.kstack>>
                       /\ new.kfx = old.kfx
                       /\ new.kstack = old.kstack
                 /\ (old.ksig # NoSig /\ new.ksig # NoSig)
                    => new.ksig_saved = old.ksig_saved
                 /\ (old.ksig_restore /\ ~new.ksig_restore)
                    => /\ new.arch = old.ksig_saved[1]
                       /\ new.kfx = old.ksig_saved[2]
                       /\ new.kstack[1] = old.kstack[1]
                       /\ new.kstack[2] = old.kstack[2]
                       /\ new.kstack[3].data = old.ksig_saved[3][3].data
                       /\ new.kstack[3].singlestep = old.kstack[3].singlestep
                       /\ new.ksig = NoSig
                       /\ new.ksig_saved = NoSaved
                       /\ new.status = "Runnable"
        /\ \A k \in Cpus :
              spc[k] = "scan" /\ spc'[k] # "scan"
              => \A c \in CtxIds :
                    contexts[c].kstack # NoStack
                    => LET x == [contexts[c] EXCEPT
                                   !.pending = <<1>>, !.ksig = NoSig,
                                   !.ksig_saved = NoSaved,
                                   !.ksig_restore = FALSE, !.running = FALSE,
                                   !.ptrace_stop = FALSE, !.cpu_id = k]
                       IN \A y \in AfterHandler(inject_signal(x)) :
                             LET r == update_runnable(y, k, now) IN
                             /\ update_runnable_panic(y, k) = NoPanic
                             /\ r[2]
                             /\ r[1].arch = x.arch
                             /\ r[1].kfx = x.kfx
                             /\ r[1].kstack[1] = x.kstack[1]
                             /\ r[1].kstack[2] = x.kstack[2]
                             /\ r[1].kstack[3].data = x.kstack[3].data
                             /\ r[1].kstack[3].singlestep
                                   = y.kstack[3].singlestep
                             /\ r[1].ksig = NoSig
                             /\ ~r[1].ksig_restore
                             /\ r[1].status = "Runnable"
                             /\ r[1].pending = <<>> ]_vars

\* a context that had run, with registers, FPU state, stack contents and
\* single-step flag other than those it began with, has been through the
\* signal of the run: no context has a ksig, a ksig_restore or a pending
\* signal left, and the scan has chosen the context with the values its
\* handler did not leave
C35_RestoredAfterHandler ==
    \E c \in CtxIds, k \in Cpus :
        /\ sent = MaxSignals
        /\ \A d \in CtxIds :
              /\ contexts[d].pending = <<>>
              /\ contexts[d].ksig = NoSig
              /\ ~contexts[d].ksig_restore
              /\ d # c => contexts[d].arch = 0 /\ contexts[d].kfx = 0
        /\ spc[k] = "commit"
        /\ sw[k][2] = c
        /\ contexts[c].kstack # NoStack
        /\ contexts[c].arch = MaxArch
        /\ contexts[c].kfx = MaxArch
        /\ contexts[c].kstack[3] = StackContents(MaxArch, TRUE)

C37_RoundRobin ==
    /\ \A k \in UpCpus, c \in CtxIds :
          Eligible(contexts[c], k)
          ~> \/ CONTEXT_ID[k] = c /\ contexts[c].running
             \/ ~Eligible(contexts[c], k) /\ ~contexts[c].running
    /\ [][ \A k \in Cpus, c \in CtxIds :
              Chooses(k, c) => passed[k][c] = {} ]_vars

\* the CPU has chosen and run a context c, another context has been
\* eligible ever since, and the next scan, from c, has chosen that one
C37_NextAfterChosen ==
    \E k \in UpCpus, c, d \in CtxIds :
        /\ spc[k] = "commit"
        /\ sw[k] = <<c, d>>
        /\ d \in passed[k][c]
        /\ c > d
        /\ contexts[c].running

(***************************************************************************)
(* Properties of the pipe scheme.                                          *)
(***************************************************************************)
\* C2: the bytes the reads of a pipe have returned, followed by the bytes
\* still queued, are the bytes its writes have accepted, in their order: the
\* reads return a prefix of what was written, nothing lost, doubled or moved
C2_ReadsArePrefixOfWrites ==
    \A key \in DOMAIN pipes :
        written[key] = readout[key] \o pipes[key].queue

\* every byte of the run has gone through the pipe, and the last read took
\* its bytes from both halves of the ring
C2_AllBytesRead ==
    \E key \in DOMAIN pipes :
        /\ Len(readout[key]) = MaxBytes
        /\ ret.call.op = "kread"
        /\ ret.val = Ok(MAX_QUEUE_SIZE)

\* C3: the queue of a pipe never holds more than MAX_QUEUE_SIZE bytes
C3_QueueBounded ==
    \A key \in DOMAIN pipes : Len(pipes[key].queue) <= MAX_QUEUE_SIZE

\* two callers were inside kwrite on the pipe at once: one has just filled
\* the queue and the other still has bytes to write
C3_FullWithTwoWriters ==
    \E key \in DOMAIN pipes :
        /\ Len(pipes[key].queue) = MAX_QUEUE_SIZE
        /\ ret.call.op = "kwrite"
        /\ ret.val = Ok(MAX_QUEUE_SIZE)
        /\ \E q \in Procs :
              /\ q # ret.who
              /\ ppc[q] = "kwrite_loop"
              /\ Key(q) = key
              /\ call[q].len > 0

\* C4: a pass of kwrite returns EPIPE exactly when the reader side of the
\* pipe has been closed
C4_EpipeIffReaderClosed ==
    [][\A p \in Procs :
          ppc[p] = "kwrite_loop" /\ ppc'[p] # "kwrite_loop" =>
             ((ppc'[p] = "idle" /\ ret'.val = Err("EPIPE"))
                <=> ~pipes[Key(p)].reader_is_alive)]_vars

\* C5, as stated: a pass of kread returns 0 exactly when the queue is empty
\* and the writer side has been closed
C5_ZeroIffEmptyAndWriterClosed ==
    [][\A p \in Procs :
          ppc[p] = "kread_loop" /\ ppc'[p] # "kread_loop" =>
             ((ppc'[p] = "idle" /\ ret'.val = Ok(0))
                <=> (pipes[Key(p)].queue = <<>> /\ ~pipes[Key(p)].writer_is_alive))]_vars

\* C5, amended: with a user buffer that is not empty, a pass of kread
\* returns 0 exactly when the queue is empty and the writer side has been
\* closed; a read into an empty buffer returns 0 whatever the state of the pipe
C5_ZeroIffEmptyAndWriterClosed_NonEmptyBuf ==
    [][\A p \in Procs :
          ppc[p] = "kread_loop" /\ ppc'[p] # "kread_loop" =>
             /\ call[p].len > 0 =>
                  ((ppc'[p] = "idle" /\ ret'.val = Ok(0))
                     <=> (pipes[Key(p)].queue = <<>>
                          /\ ~pipes[Key(p)].writer_is_alive))
             /\ call[p].len = 0 /\ pipes[Key(p)].queue = <<>> =>
                  (ppc'[p] = "idle" /\ ret'.val = Ok(0))]_vars

\* a read returned 0 after the writer closed with bytes still queued and
\* reads returned those bytes first
C5_EofAfterDrain ==
    \E key \in DOMAIN pipes :
        /\ ret.call.op = "kread"
        /\ ret.call.len > 0
        /\ ret.val = Ok(0)
        /\ from_raw_id(ret.call.id)[2] = key
        /\ ~pipes[key].writer_is_alive
        /\ readout[key] # <<>>
        /\ readout[key] = written[key]

\* C6: no caller stays parked on a pipe whose other side has been closed: a
\* reader is not parked on read_condition once writer_is_alive is false, nor
\* a writer on write_condition once reader_is_alive is false (close notifies
\* before it stores the flag, so nothing will wake such a caller)
C6_NoWaiterAfterClose ==
    \A key \in DOMAIN pipes :
        /\ ~pipes[key].writer_is_alive => pipes[key].read_condition = {}
        /\ ~pipes[key].reader_is_alive => pipes[key].write_condition = {}

\* C12: the record of a pipe is out of PIPES only when both its sides have
\* been closed; with a side not closed the record is there
C12_RemovedOnlyWhenBothClosed ==
    \A key \in DOMAIN pipes :
        key \notin PIPES =>
            (~pipes[key].reader_is_alive /\ ~pipes[key].writer_is_alive)

\* a record was removed from a pipe that was written to, read from and
\* dup'ed
C12_RemovedAfterUse ==
    \E key \in DOMAIN pipes :
        /\ key \notin PIPES
        /\ pipes[key].has_run_dup
        /\ readout[key] # <<>>

\* the close calls of a pipe that have not returned yet
ClosesInProgress(key) ==
    {p \in Procs : ppc[p] \in {"close_store", "close_finish"} /\ Key(p) = key}

\* both sides of the pipe have been closed and the closes have returned
BothClosed(key) ==
    /\ ~pipes[key].reader_is_alive
    /\ ~pipes[key].writer_is_alive
    /\ ClosesInProgress(key) = {}

C18_DupOnceOnly ==
    [][(ret'.call.op = "kdup" /\ ret'.who # 0 /\ ret' # ret) =>
          LET is_writer_not_reader == from_raw_id(ret'.call.id)[1]
              key == from_raw_id(ret'.call.id)[2]
          IN IF is_writer_not_reader
             THEN ret'.val = Err("EBADF") /\ pipes' = pipes
             ELSE IF ret'.call.data # WriteStr
             THEN ret'.val = Err("EINVAL") /\ pipes' = pipes
             ELSE IF key \in PIPES /\ ~pipes[key].has_run_dup
             THEN /\ ret'.val = Ok(key + WRITE_NOT_READ_BIT)
                  /\ pipes'[key].has_run_dup
             ELSE ret'.val = Err("EBADF") /\ pipes' = pipes]_vars

C25_FaultFirstChunkOrLater ==
    [][ \A p \in Procs :
          ppc[p] = "kwrite_loop" /\ ppc'[p] # "kwrite_loop"
          => LET key == Key(p)
                 queue == pipes[key].queue
                 data == call[p].data
                 bytes_to_write == Min(MAX_QUEUE_SIZE - Len(queue), Len(data))
                 first == Min(TMPBUF_SIZE, bytes_to_write)
                 whole == (ret'.valid \div TMPBUF_SIZE) * TMPBUF_SIZE
             IN  bytes_to_write > 0
                 => /\ ppc'[p] = "idle"
                    /\ ret'.who = p
                    /\ IF ret'.valid < first
                       THEN /\ ret'.val = Err("EFAULT")
                            /\ pipes'[key].queue = queue
                       ELSE IF ret'.valid < bytes_to_write
                       THEN /\ ret'.val = Ok(whole)
                            /\ 0 < whole /\ whole < bytes_to_write
                            /\ pipes'[key].queue = queue \o Take(data, whole)
                       ELSE /\ ret'.val = Ok(bytes_to_write)
                            /\ pipes'[key].queue
                                 = queue \o Take(data, bytes_to_write) ]_vars

\* a write of more than one chunk faulted in its second chunk: it returned
\* the length of the first chunk, and the queue, empty before, holds the
\* first chunk of the buffer only
C25_ShortWriteAfterFault ==
    \E key \in DOMAIN pipes :
        /\ ret.call.op = "kwrite"
        /\ from_raw_id(ret.call.id)[2] = key
        /\ Len(ret.call.data) > TMPBUF_SIZE
        /\ ret.val = Ok(TMPBUF_SIZE)
        /\ ret.valid = TMPBUF_SIZE
        /\ written[key] = Take(ret.call.data, TMPBUF_SIZE)
        /\ pipes[key].queue = Take(ret.call.data, TMPBUF_SIZE)

(***************************************************************************)
(* Properties of the irq scheme.                                           *)
(***************************************************************************)
\* the fds whose open reserved <<cpu, vector>> and that have not been closed
Holders(pair) == {fd \in DOMAIN resv : resv[fd] = pair /\ fd \notin closed}

\* C7: a reservation is taken atomically: of the O_CREAT opens of one
\* cpu-XX/N at most one succeeds while the reservation is held, so no two
\* open handles hold the same (cpu, vector)
C7_OneHolderPerVector ==
    \A fd \in DOMAIN resv :
        resv[fd] # <<>> => Cardinality(Holders(resv[fd])) <= 1

\* C8: a close of a handle opened with O_CREAT at cpu-XX/N releases
\* (cpu XX, vector N + 32): after the close the vector is not reserved
C8_CloseReleases ==
    (iret.op = "close" /\ iret.val = Ok(0) /\ resv[iret.fd] # <<>>)
        => ~is_reserved(resv[iret.fd][1], resv[iret.fd][2])

\* what a close of fd may clear: the reservation its own open set, once
Owned(fd) == IF resv[fd] # <<>> /\ fd \notin closed THEN {resv[fd]} ELSE {}

\* C9: a close clears only the reservation the same handle set, and only
\* once: a close of a handle that reserved nothing, or of an fd closed
\* before, clears nothing
C9_CloseClearsOnlyItsOwn ==
    [][(iret'.op = "close" /\ iret'.val = Ok(0))
          => (reserved \ reserved') \subseteq Owned(iret'.fd)]_vars

\* C10: the count a handle has acknowledged never exceeds the count of its irq
C10_AckAtMostCount ==
    \A fd \in DOMAIN HANDLES :
        HANDLES[fd].kind = "Irq" => HANDLES[fd].ack <= Count(HANDLES[fd].irq)

\* a handle has acknowledged an interrupt and its irq has fired again since,
\* while a write of the older count is between its comparison and its store
C10_AckBehindCount ==
    \E fd \in DOMAIN HANDLES :
        /\ HANDLES[fd].kind = "Irq"
        /\ HANDLES[fd].ack > 0
        /\ HANDLES[fd].ack < Count(HANDLES[fd].irq)
        /\ \E p \in IrqProcs :
              /\ ipc[p] = "kwrite_store"
              /\ icall[p].fd = fd
              /\ icall[p].word < Count(HANDLES[fd].irq)

\* the step is one of a kread of p
KreadStep(p) ==
    \/ ipc[p] = "idle" /\ ipc'[p] = "kread_ack"
    \/ ipc[p] = "kread_ack" /\ ipc'[p] = "idle"
    \/ ipc[p] = "idle" /\ ipc'[p] = "idle" /\ iret'.op = "kread"

C15_WriteAcknowledgesIffEqual ==
    [][/\ \A p \in IrqProcs :
             /\ (ipc[p] = "idle" /\ ipc'[p] = "kwrite_store") =>
                   LET fd == icall'[p].fd IN
                   /\ HANDLES[fd].kind = "Irq"
                   /\ icall'[p].word = COUNTS[HANDLES[fd].irq]
                   /\ HANDLES' = HANDLES
                   /\ COUNTS' = COUNTS
             /\ (ipc[p] = "kwrite_store" /\ ipc'[p] = "idle") =>
                   LET fd == icall[p].fd IN
                   /\ HANDLES' = [HANDLES EXCEPT ![fd].ack = icall[p].word]
                   /\ COUNTS' = COUNTS
                   /\ iret' = IRet("kwrite", fd, Ok(SIZE_OF_USIZE),
                                   icall[p].word, {}, {HANDLES[fd].irq})
       /\ (ipc' = ipc /\ iret'.op = "kwrite") =>
             /\ HANDLES' = HANDLES
             /\ COUNTS' = COUNTS
             /\ iret'.acks = {}
             /\ \/ /\ iret'.val = Ok(0)
                   /\ HANDLES[iret'.fd].kind = "Irq"
                   /\ iret'.word # COUNTS[HANDLES[iret'.fd].irq]
                \/ /\ iret'.val = Err("EINVAL")
                   /\ HANDLES[iret'.fd].kind = "Irq"
                \/ /\ iret'.val = Err("EBADF")
                   /\ HasHandle(iret'.fd) => HANDLES[iret'.fd].kind # "Irq"]_vars

\* the second interrupt was acknowledged: a kwrite stored the count 2 and
\* called acknowledge for its irq
C15_SecondCountAcknowledged ==
    /\ iret.op = "kwrite"
    /\ iret.val = Ok(SIZE_OF_USIZE)
    /\ iret.word = 2
    /\ iret.acks # {}
    /\ HANDLES[iret.fd].ack = 2

\* C16: after a kwrite has acknowledged the current count on a handle, a
\* read of the handle that loads that count returns 0 bytes as long as the
\* irq has not been triggered again; the trigger increments the count, and a
\* read that loads the incremented count before it is acknowledged returns it
C16_ZeroUntilNextTrigger ==
    [][\A p \in IrqProcs :
          (ipc[p] = "kread_ack" /\ ipc'[p] = "idle"
           /\ icall[p].word = COUNTS[HANDLES[icall[p].fd].irq]) =>
              /\ icall[p].fd \in acked => iret'.val = Ok(0)
              /\ (icall[p].fd \notin acked /\ icall[p].word > 0) =>
                    /\ iret'.val = Ok(SIZE_OF_USIZE)
                    /\ iret'.word = icall[p].word]_vars

\* C17: irq_trigger has incremented COUNTS[irq] when it posts EVENT_READ, so
\* that no wake is lost: from the post on, the ack of a handle of the irq is
\* behind the count until a kwrite acknowledges that count, whatever reads and
\* writes of older counts interleave, and a read that loads the count before
\* such a write returns it
C17_NoLostWake ==
    [][/\ (trig # NoIrq /\ trig' = NoIrq) =>
             \A fd \in iret'.posted :
                 fd \notin acked => HANDLES[fd].ack < COUNTS[trig]
       /\ \A fd \in DOMAIN HANDLES :
             (/\ HANDLES[fd].kind = "Irq"
              /\ HANDLES[fd].ack < COUNTS[HANDLES[fd].irq]
              /\ fd \notin acked') =>
                 HANDLES'[fd].ack < COUNTS'[HANDLES[fd].irq]
       /\ \A p \in IrqProcs :
             (/\ ipc[p] = "kread_ack" /\ ipc'[p] = "idle"
              /\ icall[p].fd \notin acked
              /\ icall[p].word = COUNTS[HANDLES[icall[p].fd].irq]
              /\ icall[p].word > 0) =>
                 /\ iret'.val = Ok(SIZE_OF_USIZE)
                 /\ iret'.word = icall[p].word]_vars

\* a read returned the count of the second interrupt while a write of the
\* first count was between its comparison and its store
C17_ReadRacesStaleWrite ==
    /\ iret.op = "kread"
    /\ iret.val = Ok(SIZE_OF_USIZE)
    /\ iret.word = 2
    /\ trig = NoIrq
    /\ \E q \in IrqProcs :
          /\ ipc[q] = "kwrite_store"
          /\ icall[q].fd = iret.fd
          /\ icall[q].word = 1

\* a step in which an open() of the top-level path N, N below
\* BASE_IRQ_COUNT, returns
LegacyOpenReturns ==
    /\ iret'.op = "open"
    /\ ipc' = ipc
    /\ iret'.path.kind = "irq"
    /\ iret'.path.irq < BASE_IRQ_COUNT

\* C24: open() of a numeric path N < 16 on the root of the scheme by a
\* caller with uid 0 succeeds with any flags and whatever handles exist: it
\* returns the next fd, inserts a handle for irq N with ack 0, and reserves
\* nothing; by any other caller it fails with EACCES and changes nothing
C24_LegacyOpenByRootSucceeds ==
    [][ LegacyOpenReturns
        => IF iret'.uid = 0
           THEN /\ iret'.val = Ok(next_fd)
                /\ next_fd' = next_fd + 1
                /\ DOMAIN HANDLES' = DOMAIN HANDLES \cup {next_fd}
                /\ HANDLES'[next_fd] = IrqHandle(iret'.path.irq)
                /\ \A fd \in DOMAIN HANDLES : HANDLES'[fd] = HANDLES[fd]
                /\ resv'[next_fd] = <<>>
                /\ reserved' = reserved
           ELSE /\ iret'.val = Err("EACCES")
                /\ UNCHANGED <<HANDLES, next_fd, reserved, resv>> ]_vars

\* C24 as stated: every open() of a numeric path N < 16 on the root succeeds
C24_LegacyOpenNeverFails ==
    [][ LegacyOpenReturns => iret'.val[1] = "Ok" ]_vars

\* a second handle for the same legacy irq has just been opened with no
\* flags while the first is still open, and nothing is reserved
C24_TwoHandlesSameIrq ==
    \E a, b \in DOMAIN HANDLES :
        /\ a # b
        /\ HANDLES[a].kind = "Irq"
        /\ HANDLES[b].kind = "Irq"
        /\ HANDLES[a].irq = HANDLES[b].irq
        /\ HANDLES[a].irq < BASE_IRQ_COUNT
        /\ closed = {}
        /\ reserved = {}
        /\ iret.op = "open"
        /\ iret.val = Ok(b)
        /\ iret.path.kind = "irq"
        /\ iret.flags = {}
        /\ iret.uid = 0

(***************************************************************************)
(* Properties of the fast syscall gate.                                    *)
(***************************************************************************)
\* C11: the gate is left by sysretq only with a canonical return RIP (bits
\* 47..=63 all 0 or all 1); with any of those bits set it is left by iretq,
\* with RCX and R11 zero and the user's GS
C11_SysretOnlyCanonical ==
    /\ left.by = "sysretq" => Canonical(left.rip)
    /\ (left.by # "none" /\ left.rip \div (2 ^ SIGN_BIT) # 0) =>
          (left.by = "iretq" /\ regs.rcx = 0 /\ regs.r11 = 0 /\ gs = "user")

\* a tracer put 0x0000_8000_0000_0000 (bit 47 alone) in the frame of a call
\* that entered with another RIP and non-zero RFLAGS, and the gate was left
C11_Bit47Alone ==
    /\ left.by = "iretq"
    /\ left.rip = 2 ^ SIGN_BIT
    /\ frame.rflags # 0

\* the tracer asked at the pre-syscall breakpoint to ignore the call
Ignored(d) ==
    /\ d.callback # None
    /\ d.next # None
    /\ "PTRACE_FLAG_IGNORE" \in d.next[1]

\* C22: the dispatcher invokes the pre-syscall breakpoint first; if the
\* tracer asked to ignore the call the handler is not run and the RAX slot
\* of the frame is left as it was, otherwise the handler runs with the
\* number found in the slot and its return value is stored there; either
\* way the post-syscall breakpoint is invoked once, last
C22_DispatcherBreakpoints ==
    [][ gate = "inner" /\ gate' # "inner"
        => IF Ignored(disp')
           THEN /\ disp'.events = <<"PTRACE_STOP_PRE_SYSCALL",
                                    "PTRACE_STOP_POST_SYSCALL">>
                /\ disp'.ret = None
                /\ frame'.rax = frame.rax
           ELSE /\ disp'.events = <<"PTRACE_STOP_PRE_SYSCALL", "syscall",
                                    "PTRACE_STOP_POST_SYSCALL">>
                /\ disp'.nr = frame.rax
                /\ disp'.ret # None
                /\ frame'.rax = disp'.ret[1] ]_vars

\* a traced call was ignored: both breakpoints ran, the handler did not,
\* and the RAX slot of the frame still holds the syscall number
C22_IgnoredCall ==
    /\ gate = "test"
    /\ Ignored(disp)
    /\ frame.rax = MaxNr
    /\ Len(disp.events) = 2


(***************************************************************************)
(* Properties of concurrent calls on one pipe and on one irq handle.       *)
(***************************************************************************)
\* a caller parked in kread / in kwrite
ParkedReader(p) == ppc[p] = "kread_wait"
ParkedWriter(p) == ppc[p] = "kwrite_wait"

\* the call of p has returned in the last step with data moved, or with
\* EFAULT for a user buffer that was not accessible
Completed(p, op) ==
    /\ ret.who = p
    /\ ret.call.op = op
    /\ \/ ret.val[1] = "Ok" /\ ret.val[2] > 0
       \/ ret.val = Err("EFAULT")

C39_AckMonotone ==
    [][\A fd \in DOMAIN HANDLES :
          HANDLES[fd].kind = "Irq" => HANDLES'[fd].ack >= HANDLES[fd].ack]_vars

\* C40: once close(fd) has returned Ok the handle is gone: a read, a write
\* or a close of the fd that begins later returns EBADF in the step it
\* begins in, and the fan-out of irq_trigger posts EVENT_READ to no fd that
\* has been closed
C40_ClosedFdGone ==
    [][/\ \A p \in IrqProcs :
             (ipc[p] = "idle" /\ ipc'[p] \in {"kread_ack", "kwrite_store"})
                => icall'[p].fd \notin closed
       /\ (ipc' = ipc /\ iret'.op \in {"kread", "kwrite", "close"}
           /\ iret'.fd \in closed) => iret'.val = Err("EBADF")
       /\ iret'.op = "irq_trigger" => iret'.posted \cap closed = {}]_vars

====
